---------------------------- MODULE Spec2Model ----------------------------
(***************************************************************************)
(* State-machine model of the screenshot verifier in src/bot.py: the ROI   *)
(* fast path, the full-frame pass, the per-source score strategies, the    *)
(* tier table of VerificationResult and the /verify handler with its OCR   *)
(* semaphore.                                                              *)
(*                                                                         *)
(* Conventions.  A Python str is a tuple of one-character strings, so that *)
(* lower(), strip(), replace(), `in` and the regular expressions are       *)
(* computed character by character.  Python's None is the tuple None for   *)
(* optional texts.  A number parsed by float() is carried in hundredths    *)
(* (an integer), which is exact for numerals of at most two decimals, the  *)
(* only ones the inputs below contain.  Coordinates are integers; a centre *)
(* (a + b) / 2 is carried as a + b (twice the centre) and the tolerances   *)
(* are doubled accordingly.                                                *)
(***************************************************************************)
EXTENDS Integers, Sequences, FiniteSets, TLC

VARIABLES
    pc,         \* per request: control point of verify_cmd
    inp,        \* per request: the command's inputs and what the recognizer answers
    permits,    \* OCR_SEMAPHORE's counter
    waiters,    \* OCR_SEMAPHORE's deque of waiting acquirers, oldest first
    loc,        \* per request: the locals of verify_cmd
    calls,      \* per request: the recognizer calls issued so far, with their outcome
    replied,    \* per request: what was sent back to the user
    granted,    \* per request: the tier role assign_tier_role gave the member
    lab         \* the call and result of a pure function applied to drawn inputs

vars == <<pc, inp, permits, waiters, loc, calls, replied, granted, lab>>

pipeVars == <<pc, inp, permits, waiters, loc, calls, replied, granted>>

-----------------------------------------------------------------------------
(* Python values *)

None == <<"None">>

Truthy(t) == t # None /\ t # <<>>

-----------------------------------------------------------------------------
(* Texts the recognizer may return *)

T_Score == <<"S", "c", "o", "r", "e">>
T_ScoreUp == <<"S", "C", "O", "R", "E">>
T_KolScore == <<"K", "O", "L", " ", "S", "c", "o", "r", "e">>
T_Wallchain == <<"W", "a", "l", "l", "c", "h", "a", "i", "n">>
T_Kaito == <<"K", "A", "I", "T", "O">>
T_TotalYaps == <<"T", "o", "t", "a", "l", " ", "Y", "a", "p", "s">>
T_Total == <<"T", "o", "t", "a", "l">>
T_Yaps == <<"Y", "a", "p", "s">>
T_XeetsEarned == <<"X", "e", "e", "t", "s", " ", "E", "a", "r", "n", "e", "d">>
T_SnapsEarned == <<"S", "n", "a", "p", "s", " ", "E", "a", "r", "n", "e", "d">>
T_Cookie == <<"c", "o", "o", "k", "i", "e">>
T_Mindoshare == <<"M", "i", "n", "d", "o", "s", "h", "a", "r", "e">>
T_Quack == <<"Q", "u", "a", "c", "k">>
T_Balance == <<"b", "a", "l", "a", "n", "c", "e">>
T_Hello == <<"h", "e", "l", "l", "o">>
T_N287 == <<"2", "8", "7">>
T_N2_91 == <<"2", ".", "9", "1">>
T_N1c234 == <<"1", ",", "2", "3", "4">>
T_N1234 == <<"1", "2", "3", "4">>
T_N42sp == <<" ", "4", "2", " ">>
T_N5 == <<"5">>
T_N60 == <<"6", "0">>
T_N5000 == <<"5", "0", "0", "0">>
T_AtAlice == <<"@", "a", "l", "i", "c", "e">>
T_AtBob == <<"@", "B", "o", "b", ".">>
T_AtDots == <<"@", ".", ".", ".">>
T_AtAb == <<"@", "a", "b">>

-----------------------------------------------------------------------------
(* str methods *)

UpperChars == <<"A", "B", "C", "D", "E", "F", "G", "H", "I", "J", "K", "L", "M",
                "N", "O", "P", "Q", "R", "S", "T", "U", "V", "W", "X", "Y", "Z">>

LowerChars == <<"a", "b", "c", "d", "e", "f", "g", "h", "i", "j", "k", "l", "m",
                "n", "o", "p", "q", "r", "s", "t", "u", "v", "w", "x", "y", "z">>

LowerChar(c) ==
    IF \E i \in 1..Len(UpperChars) : UpperChars[i] = c
    THEN LowerChars[CHOOSE i \in 1..Len(UpperChars) : UpperChars[i] = c]
    ELSE c

\* str.lower()
Lower(t) == [i \in 1..Len(t) |-> LowerChar(t[i])]

\* the characters str.strip() removes that occur in the inputs
Whitespace == {" "}

\* the argument of .strip('.,;:!)]}(')
TrimSet == {".", ",", ";", ":", "!", ")", "]", "}", "("}

RECURSIVE LStripChars(_, _)
\* str.lstrip(chars)
LStripChars(t, chars) ==
    IF t # <<>> /\ Head(t) \in chars THEN LStripChars(Tail(t), chars) ELSE t

RECURSIVE RStripChars(_, _)
\* str.rstrip(chars)
RStripChars(t, chars) ==
    IF t # <<>> /\ t[Len(t)] \in chars
    THEN RStripChars(SubSeq(t, 1, Len(t) - 1), chars)
    ELSE t

\* str.strip(chars)
StripChars(t, chars) == RStripChars(LStripChars(t, chars), chars)

\* str.strip()
Strip(t) == StripChars(t, Whitespace)

\* kw in t
Contains(t, kw) ==
    \E i \in 0..(Len(t) - Len(kw)) : SubSeq(t, i + 1, i + Len(kw)) = kw

\* t.startswith(p)
StartsWith(t, p) == Len(t) >= Len(p) /\ SubSeq(t, 1, Len(p)) = p

\* t.replace(',', '')
RemoveCommas(t) == SelectSeq(t, LAMBDA c : c # ",")

RECURSIVE JoinSpace(_)
\* " ".join(texts)
JoinSpace(texts) ==
    IF texts = <<>> THEN <<>>
    ELSE IF Len(texts) = 1 THEN texts[1]
    ELSE texts[1] \o <<" ">> \o JoinSpace(Tail(texts))

-----------------------------------------------------------------------------
(* Numerals *)

DigitChars == <<"0", "1", "2", "3", "4", "5", "6", "7", "8", "9">>

IsDigit(c) == \E i \in 1..Len(DigitChars) : DigitChars[i] = c

DigitVal(c) == (CHOOSE i \in 1..Len(DigitChars) : DigitChars[i] = c) - 1

AllDigits(t) == t # <<>> /\ \A i \in 1..Len(t) : IsDigit(t[i])

\* index of the first "." of t, 0 when there is none
DotAt(t) ==
    IF \E i \in 1..Len(t) : t[i] = "."
    THEN CHOOSE i \in 1..Len(t) : t[i] = "." /\ \A j \in 1..(i - 1) : t[j] # "."
    ELSE 0

\* re.match(r'^\d+(\.\d+)?$', t)
IsNumeral(t) ==
    IF DotAt(t) = 0 THEN AllDigits(t)
    ELSE /\ AllDigits(SubSeq(t, 1, DotAt(t) - 1))
         /\ AllDigits(SubSeq(t, DotAt(t) + 1, Len(t)))

RECURSIVE DigitsVal(_)
\* the integer a string of digits denotes
DigitsVal(t) ==
    IF t = <<>> THEN 0 ELSE 10 * DigitsVal(SubSeq(t, 1, Len(t) - 1)) + DigitVal(t[Len(t)])

\* float() reads a literal without its sign
Unsigned(s) == IF s # <<>> /\ s[1] \in {"+", "-"} THEN Tail(s) ELSE s

\* the text float() parses once blanks and sign are off
FloatBody(t) == Unsigned(Strip(t))

\* -1 for a literal with a leading "-", else 1
SignOf(t) == IF Strip(t) # <<>> /\ Strip(t)[1] = "-" THEN 0 - 1 ELSE 1

\* index of the exponent letter of a literal, 0 when it has none
ExpAt(s) ==
    IF \E i \in 1..Len(s) : s[i] \in {"e", "E"}
    THEN CHOOSE i \in 1..Len(s) :
             s[i] \in {"e", "E"} /\ \A j \in 1..(i - 1) : s[j] \notin {"e", "E"}
    ELSE 0

Mantissa(s) == IF ExpAt(s) = 0 THEN s ELSE SubSeq(s, 1, ExpAt(s) - 1)

Exponent(s) == IF ExpAt(s) = 0 THEN <<>> ELSE SubSeq(s, ExpAt(s) + 1, Len(s))

\* digits with an optional point: "5", "5.", ".5", "5.25"
DecimalOk(m) ==
    LET d == DotAt(m)
        ip == IF d = 0 THEN m ELSE SubSeq(m, 1, d - 1)
        fp == IF d = 0 THEN <<>> ELSE SubSeq(m, d + 1, Len(m))
    IN  /\ ip \o fp # <<>>
        /\ \A i \in 1..Len(ip) : IsDigit(ip[i])
        /\ \A i \in 1..Len(fp) : IsDigit(fp[i])

\* float() reads "inf" and "infinity" in any letter case as infinity
FloatIsInf(t) ==
    Lower(FloatBody(t)) \in {<<"i", "n", "f">>,
                             <<"i", "n", "f", "i", "n", "i", "t", "y">>}

\* float() reads "nan" in any letter case as not-a-number
FloatIsNan(t) == Lower(FloatBody(t)) = <<"n", "a", "n">>

\* whether float(t) returns rather than raising ValueError, for ASCII texts
\* without "_": an optional sign, then inf, infinity, nan, or a decimal with an
\* optional exponent; float() strips blanks itself
FloatOk(t) ==
    \/ FloatIsInf(t)
    \/ FloatIsNan(t)
    \/ /\ DecimalOk(Mantissa(FloatBody(t)))
       /\ ExpAt(FloatBody(t)) # 0 => AllDigits(Unsigned(Exponent(FloatBody(t))))

\* FloatVal with the decimals dropped, as int() would parse
FloatValWhole(t) ==
    LET s == Strip(t)
        d == DotAt(s)
    IN  100 * DigitsVal(IF d = 0 THEN s ELSE SubSeq(s, 1, d - 1))

RECURSIVE Pow10(_)
Pow10(k) == IF k <= 0 THEN 1 ELSE 10 * Pow10(k - 1)

\* a value above every threshold, for float('inf'); finite values from PosInf up
\* are carried as PosInf
PosInf == Pow10(9)

\* n * 10^k, cut off at PosInf; for k < 0 the whole part of n / 10^-k
Scaled(n, k) ==
    IF n = 0 THEN 0
    ELSE IF k > 9 THEN PosInf
    ELSE IF k >= 0
    THEN IF n >= PosInf \div Pow10(k) THEN PosInf ELSE n * Pow10(k)
    ELSE IF 0 - k > 9 THEN 0
    ELSE n \div Pow10(0 - k)

\* the digits before and after the point of the mantissa of the literal b, and
\* its exponent
FloatParts(b) ==
    [ip |-> IF DotAt(Mantissa(b)) = 0 THEN Mantissa(b)
            ELSE SubSeq(Mantissa(b), 1, DotAt(Mantissa(b)) - 1),
     fp |-> IF DotAt(Mantissa(b)) = 0 THEN <<>>
            ELSE SubSeq(Mantissa(b), DotAt(Mantissa(b)) + 1, Len(Mantissa(b))),
     e |-> IF ExpAt(b) = 0 THEN 0
           ELSE SignOf(Exponent(b)) * DigitsVal(Unsigned(Exponent(b)))]

\* float(t) in hundredths, for a t that float() reads as a number (not nan) with
\* at most two decimals once its exponent is applied
FloatVal(t) ==
    IF FloatIsInf(t) THEN SignOf(t) * PosInf
    ELSE CHOOSE val \in {SignOf(t) * Scaled(DigitsVal(p.ip \o p.fp),
                                            p.e - Len(p.fp) + 2) :
                             p \in {FloatParts(FloatBody(t))}} : TRUE

-----------------------------------------------------------------------------
(* String literals of the source *)

K_wallchain == <<"w", "a", "l", "l", "c", "h", "a", "i", "n">>
K_quacks == <<"q", "u", "a", "c", "k", "s">>
K_quack_balance == <<"q", "u", "a", "c", "k", " ", "b", "a", "l", "a", "n", "c", "e">>
K_kaito == <<"k", "a", "i", "t", "o">>
K_total_yaps == <<"t", "o", "t", "a", "l", " ", "y", "a", "p", "s">>
K_earned_yaps == <<"e", "a", "r", "n", "e", "d", " ", "y", "a", "p", "s">>
K_xeet == <<"x", "e", "e", "t">>
K_xeets_earned == <<"x", "e", "e", "t", "s", " ", "e", "a", "r", "n", "e", "d">>
K_cookie == <<"c", "o", "o", "k", "i", "e">>
K_snaps_earned == <<"s", "n", "a", "p", "s", " ", "e", "a", "r", "n", "e", "d">>
K_total_snaps == <<"t", "o", "t", "a", "l", " ", "s", "n", "a", "p", "s">>
K_kol_score == <<"k", "o", "l", " ", "s", "c", "o", "r", "e">>
K_mindoshare == <<"m", "i", "n", "d", "o", "s", "h", "a", "r", "e">>
K_Score == <<"S", "c", "o", "r", "e">>
K_total == <<"t", "o", "t", "a", "l">>
K_yaps == <<"y", "a", "p", "s">>
K_earned == <<"e", "a", "r", "n", "e", "d">>
K_total_snaps_earned == <<"t", "o", "t", "a", "l", " ", "s", "n", "a", "p", "s", " ", "e", "a", "r", "n", "e", "d">>
K_snaps == <<"s", "n", "a", "p", "s">>
K_at == <<"@">>

-----------------------------------------------------------------------------
(* _NUM_RE and the fast path's choice of a number *)

\* the end of the longest run of characters of `ok` that starts at i
RunEnd(t, i, ok(_)) ==
    CHOOSE e \in i..Len(t) :
        /\ \A j \in i..e : ok(t[j])
        /\ (e = Len(t) \/ ~ok(t[e + 1]))

\* the end of (?:\.\d+)? tried after a body that ends at b
FracEnd(t, b) ==
    IF b + 2 <= Len(t) /\ t[b + 1] = "." /\ IsDigit(t[b + 2])
    THEN RunEnd(t, b + 2, IsDigit)
    ELSE b

\* the end of the match of \d[\d,]*\d(?:\.\d+)?|\d(?:\.\d+)? that starts at the
\* digit t[i]: [\d,]* is greedy and gives back up to the last digit of the run;
\* when the run holds no second digit the second alternative takes the one digit
NumMatchEnd(t, i) ==
    LET r == RunEnd(t, i, LAMBDA c : IsDigit(c) \/ c = ",")
        later == {j \in (i + 1)..r : IsDigit(t[j])}
        b == IF later # {} THEN CHOOSE j \in later : \A k \in later : k <= j ELSE i
    IN  FracEnd(t, b)

RECURSIVE NumFindAllFrom(_, _)
NumFindAllFrom(t, i) ==
    IF i > Len(t) THEN <<>>
    ELSE IF ~IsDigit(t[i]) THEN NumFindAllFrom(t, i + 1)
    ELSE <<SubSeq(t, i, NumMatchEnd(t, i))>> \o NumFindAllFrom(t, NumMatchEnd(t, i) + 1)

\* _NUM_RE.findall(t)
NumFindAll(t) == NumFindAllFrom(t, 1)

RECURSIVE NumsOf(_)
\* the list nums of _best_number_from_texts
NumsOf(texts) ==
    IF texts = <<>> THEN <<>>
    ELSE (IF Truthy(Head(texts))
          THEN SelectSeq([i \in 1..Len(NumFindAll(Head(texts))) |->
                              Strip(NumFindAll(Head(texts))[i])],
                         LAMBDA s : s # <<>>)
          ELSE <<>>) \o NumsOf(Tail(texts))

\* parsed.sort(key=lambda x: x[0], reverse=True); parsed[0][1]: the sort is stable,
\* so of the strings of greatest value the one found first
LargestFirst(nums) ==
    LET v(i) == FloatVal(RemoveCommas(nums[i]))
        best == CHOOSE i \in 1..Len(nums) :
                    /\ \A j \in 1..Len(nums) : v(j) <= v(i)
                    /\ \A j \in 1..(i - 1) : v(j) < v(i)
    IN  nums[best]

\* no least value for any project
NoMinimum(project) == 0

\* the least value _best_number_from_texts keeps for a project, in units
MinPlausible(project) ==
    CASE project = "Wallchain" -> 10
      [] project = "Xeet" -> 50
      [] OTHER -> 0

best_number_from_texts(texts, project) ==
    LET nums == NumsOf(texts)
        kept == SelectSeq(nums, LAMBDA s :
                    FloatVal(RemoveCommas(s)) >= 100 * MinPlausible(project))
    IN  IF kept = <<>> THEN None ELSE LargestFirst(kept)

-----------------------------------------------------------------------------
(* Source classifier *)

Sources == {"Wallchain", "Kaito", "Xeet", "Cookie", "Mindoshare", "Unknown"}

\* ClassifyBlob with the Kaito test ahead of the Wallchain test
ClassifyBlobKaitoFirst(blob) ==
    IF Contains(blob, K_kaito) \/ Contains(blob, K_total_yaps)
           \/ Contains(blob, K_earned_yaps) THEN "Kaito"
    ELSE IF Contains(blob, K_wallchain) \/ Contains(blob, K_quacks)
           \/ Contains(blob, K_quack_balance) THEN "Wallchain"
    ELSE IF Contains(blob, K_xeet) \/ Contains(blob, K_xeets_earned) THEN "Xeet"
    ELSE IF Contains(blob, K_cookie) \/ Contains(blob, K_snaps_earned)
           \/ Contains(blob, K_total_snaps) THEN "Cookie"
    ELSE IF Contains(blob, K_kol_score) \/ Contains(blob, K_mindoshare) THEN "Mindoshare"
    ELSE "Unknown"

\* the chain of tests of classify_project on its text_blob
ClassifyBlob(blob) ==
    IF Contains(blob, K_wallchain) \/ Contains(blob, K_quacks)
           \/ Contains(blob, K_quack_balance) THEN "Wallchain"
    ELSE IF Contains(blob, K_kaito) \/ Contains(blob, K_total_yaps)
           \/ Contains(blob, K_earned_yaps) THEN "Kaito"
    ELSE IF Contains(blob, K_xeet) \/ Contains(blob, K_xeets_earned) THEN "Xeet"
    ELSE IF Contains(blob, K_cookie) \/ Contains(blob, K_snaps_earned)
           \/ Contains(blob, K_total_snaps) THEN "Cookie"
    ELSE IF Contains(blob, K_kol_score) \/ Contains(blob, K_mindoshare) THEN "Mindoshare"
    ELSE "Unknown"

TextsOf(results) == [i \in 1..Len(results) |-> results[i].text]

classify_project(results) ==
    ClassifyBlob(JoinSpace([i \in 1..Len(results) |-> Lower(results[i].text)]))

\* the chain of tests of _fast_detect_project on the blob of one ROI; "Unknown"
\* stands for falling through to the next ROI
FastClassifyBlob(blob) ==
    IF Contains(blob, K_wallchain) \/ Contains(blob, K_quacks)
           \/ Contains(blob, K_quack_balance) THEN "Wallchain"
    ELSE IF Contains(blob, K_kaito) \/ Contains(blob, K_total_yaps)
           \/ Contains(blob, K_earned_yaps) THEN "Kaito"
    ELSE IF Contains(blob, K_xeet) \/ Contains(blob, K_xeets_earned) THEN "Xeet"
    ELSE IF Contains(blob, K_cookie) \/ Contains(blob, K_snaps_earned)
           \/ Contains(blob, K_total_snaps) THEN "Cookie"
    ELSE IF Contains(blob, K_kol_score) \/ Contains(blob, K_mindoshare) THEN "Mindoshare"
    ELSE "Unknown"

-----------------------------------------------------------------------------
(* Full-path score strategies.  A fragment is [bbox |-> [x0, x1, y0, y1],    *)
(* text |-> t]: EasyOCR's corners bbox[0] = (x0, y0), bbox[1] = (x1, y0),    *)
(* bbox[2] = (x1, y1).  A candidate is [h, d, text] as the source's tuples.  *)

CenterX2(b) == b.x0 + b.x1

CenterY2(b) == b.y0 + b.y1

Height(b) == b.y1 - b.y0

Abs(n) == IF n < 0 THEN 0 - n ELSE n

\* index of the first fragment of results that satisfies p, 0 when none does
FirstIndex(results, p(_)) ==
    IF \E i \in 1..Len(results) : p(results[i])
    THEN CHOOSE i \in 1..Len(results) :
             p(results[i]) /\ \A j \in 1..(i - 1) : ~p(results[j])
    ELSE 0

\* index of the last fragment of results that satisfies p, 0 when none does
LastIndex(results, p(_)) ==
    IF \E i \in 1..Len(results) : p(results[i])
    THEN CHOOSE i \in 1..Len(results) :
             p(results[i]) /\ \A j \in (i + 1)..Len(results) : ~p(results[j])
    ELSE 0

\* SortsBefore with the key (dist, -height): the nearest first
SortsBeforeNearestFirst(a, b) == a.d < b.d \/ (a.d = b.d /\ a.h > b.h)

\* candidates.sort(key=lambda x: (-x[0], x[1])): whether a sorts strictly before b
SortsBefore(a, b) == a.h > b.h \/ (a.h = b.h /\ a.d < b.d)

\* candidates[0] after the stable sort: no candidate sorts before it, and it is the
\* first in scan order of those with its key
SortedFirst(cands) ==
    cands[CHOOSE i \in 1..Len(cands) :
              /\ \A j \in 1..Len(cands) : ~SortsBefore(cands[j], cands[i])
              /\ \A j \in 1..(i - 1) : SortsBefore(cands[i], cands[j])]

\* the candidates list a strategy builds: for every fragment in scan order whose
\* cleaned text is a numeral and whose position passes, (height, dist, kept text)
CandidatesOf(results, clean(_), kept(_), passes(_), dist(_)) ==
    LET idx == SelectSeq([i \in 1..Len(results) |-> i], LAMBDA i :
                   IsNumeral(clean(results[i].text)) /\ passes(results[i].bbox))
    IN  [k \in 1..Len(idx) |->
            [h |-> Height(results[idx[k]].bbox),
             d |-> dist(results[idx[k]].bbox),
             text |-> kept(results[idx[k]].text)]]

\* return candidates[0][2] if candidates else None
TopText(cands) == IF cands = <<>> THEN None ELSE SortedFirst(cands).text

CleanStrip(t) == Strip(t)

CleanStripCommas(t) == RemoveCommas(Strip(t))

Unchanged(t) == t

MindoshareLabel(results) ==
    FirstIndex(results, LAMBDA f : Contains(Lower(f.text), K_kol_score))

MindoshareCandidates(results) ==
    LET kw == results[MindoshareLabel(results)].bbox
    IN  CandidatesOf(results, CleanStrip, Unchanged,
            LAMBDA b : Abs(CenterX2(b) - CenterX2(kw)) < 2 * 100 /\ b.y1 <= kw.y0,
            LAMBDA b : kw.y0 - b.y1)

extract_mindoshare_score(results) ==
    IF MindoshareLabel(results) = 0 THEN None
    ELSE TopText(MindoshareCandidates(results))

WallchainLabel(results) ==
    FirstIndex(results, LAMBDA f : Strip(f.text) = K_Score)

WallchainCandidates(results) ==
    LET lb == results[WallchainLabel(results)].bbox
    IN  CandidatesOf(results, CleanStrip, CleanStrip,
            LAMBDA b : Abs(CenterX2(b) - CenterX2(lb)) < 2 * 100 /\ b.y0 >= lb.y1,
            LAMBDA b : b.y0 - lb.y1)

extract_wallchain_score(results) ==
    IF WallchainLabel(results) = 0 THEN None
    ELSE TopText(WallchainCandidates(results))

\* the label loop of extract_kaito_score: a fragment with both words ends the scan
\* and is the label; otherwise yaps_bbox, else total_bbox, each as last assigned
KaitoLabel(results) ==
    LET t(f) == Strip(Lower(f.text))
        both == FirstIndex(results, LAMBDA f :
                    Contains(t(f), K_total) /\ Contains(t(f), K_yaps))
        yaps == LastIndex(results, LAMBDA f : t(f) = K_yaps)
        total == LastIndex(results, LAMBDA f : t(f) = K_total)
    IN  IF both # 0 THEN both
        ELSE IF yaps # 0 THEN yaps
        ELSE total

KaitoCandidates(results) ==
    LET lb == results[KaitoLabel(results)].bbox
    IN  CandidatesOf(results, CleanStripCommas, CleanStripCommas,
            LAMBDA b : Abs(CenterX2(b) - CenterX2(lb)) < 2 * 300 /\ b.y0 >= lb.y1,
            LAMBDA b : b.y0 - lb.y1)

extract_kaito_score(results) ==
    IF KaitoLabel(results) = 0 THEN None
    ELSE TopText(KaitoCandidates(results))

XeetLabel(results) ==
    LET t(f) == Strip(Lower(f.text))
        exact == FirstIndex(results, LAMBDA f :
                     \/ Contains(t(f), K_xeets_earned)
                     \/ (Contains(t(f), K_xeet) /\ Contains(t(f), K_earned)))
    IN  IF exact # 0 THEN exact
        ELSE FirstIndex(results, LAMBDA f : Contains(t(f), K_earned))

XeetCandidates(results) ==
    LET lb == results[XeetLabel(results)].bbox
    IN  CandidatesOf(results, CleanStripCommas, CleanStripCommas,
            LAMBDA b : Abs(CenterX2(b) - CenterX2(lb)) < 2 * 200 /\ b.y1 <= lb.y0,
            LAMBDA b : lb.y0 - b.y1)

extract_xeet_score(results) ==
    IF XeetLabel(results) = 0 THEN None
    ELSE TopText(XeetCandidates(results))

CookieLabel(results) ==
    LET t(f) == Strip(Lower(f.text))
        exact == FirstIndex(results, LAMBDA f :
                     Contains(t(f), K_total_snaps_earned) \/ Contains(t(f), K_snaps_earned))
    IN  IF exact # 0 THEN exact
        ELSE FirstIndex(results, LAMBDA f :
                 Contains(t(f), K_snaps) \/ Contains(t(f), K_earned))

\* four times the square of the source's dist between the centres; dist < 300 is
\* Dist2x4 < 4 * 300 * 300, and the sort by dist is the sort by Dist2x4
Dist2x4(b, lb) ==
    (CenterX2(b) - CenterX2(lb)) * (CenterX2(b) - CenterX2(lb))
        + (CenterY2(b) - CenterY2(lb)) * (CenterY2(b) - CenterY2(lb))

\* CookieCandidates without the test dist < 300
CookieCandidatesAnyDistance(results) ==
    LET lb == results[CookieLabel(results)].bbox
    IN  CandidatesOf(results, CleanStripCommas, CleanStripCommas,
            LAMBDA b : TRUE,
            LAMBDA b : Dist2x4(b, lb))

CookieCandidates(results) ==
    LET lb == results[CookieLabel(results)].bbox
    IN  CandidatesOf(results, CleanStripCommas, CleanStripCommas,
            LAMBDA b : Dist2x4(b, lb) < 4 * 300 * 300,
            LAMBDA b : Dist2x4(b, lb))

extract_cookie_score(results) ==
    IF CookieLabel(results) = 0 THEN None
    ELSE TopText(CookieCandidates(results))

\* a or b
Or(a, b) == IF Truthy(a) THEN a ELSE b

\* ExtractScore whose fallback for an unknown source leaves out the Wallchain
\* strategy
ExtractScoreShortFallback(project_name, results) ==
    CASE project_name = "Wallchain" -> extract_wallchain_score(results)
      [] project_name = "Kaito" -> extract_kaito_score(results)
      [] project_name = "Xeet" -> extract_xeet_score(results)
      [] project_name = "Cookie" -> extract_cookie_score(results)
      [] project_name = "Mindoshare" -> extract_mindoshare_score(results)
      [] OTHER -> Or(extract_mindoshare_score(results), extract_kaito_score(results))

\* ExtractScore whose fallback for an unknown source tries the Kaito strategy
\* ahead of the Wallchain strategy
ExtractScoreKaitoFirst(project_name, results) ==
    CASE project_name = "Wallchain" -> extract_wallchain_score(results)
      [] project_name = "Kaito" -> extract_kaito_score(results)
      [] project_name = "Xeet" -> extract_xeet_score(results)
      [] project_name = "Cookie" -> extract_cookie_score(results)
      [] project_name = "Mindoshare" -> extract_mindoshare_score(results)
      [] OTHER -> Or(extract_mindoshare_score(results),
                     Or(extract_kaito_score(results), extract_wallchain_score(results)))

\* the chain of tests of verify_cmd on project_name
ExtractScore(project_name, results) ==
    CASE project_name = "Wallchain" -> extract_wallchain_score(results)
      [] project_name = "Kaito" -> extract_kaito_score(results)
      [] project_name = "Xeet" -> extract_xeet_score(results)
      [] project_name = "Cookie" -> extract_cookie_score(results)
      [] project_name = "Mindoshare" -> extract_mindoshare_score(results)
      [] OTHER -> Or(extract_mindoshare_score(results),
                     Or(extract_wallchain_score(results), extract_kaito_score(results)))

-----------------------------------------------------------------------------
(* Handle locator *)

\* s.startswith("@") and len(s) > 3
IsHandleToken(s) == StartsWith(s, K_at) /\ Len(s) > 3

\* s.lstrip('@').strip().strip('.,;:!)]}(')
TrimHandle(s) == StripChars(Strip(LStripChars(s, {"@"})), TrimSet)

\* the last handle token among texts, None when there is none
LastHandle(texts) ==
    IF \E i \in 1..Len(texts) : IsHandleToken(Strip(texts[i]))
    THEN TrimHandle(Strip(texts[CHOOSE i \in 1..Len(texts) :
             /\ IsHandleToken(Strip(texts[i]))
             /\ \A j \in (i + 1)..Len(texts) : ~IsHandleToken(Strip(texts[j]))]))
    ELSE None

\* the first handle token among texts, None when there is none
FirstHandle(texts) ==
    IF \E i \in 1..Len(texts) : IsHandleToken(Strip(texts[i]))
    THEN TrimHandle(Strip(texts[CHOOSE i \in 1..Len(texts) :
             /\ IsHandleToken(Strip(texts[i]))
             /\ \A j \in 1..(i - 1) : ~IsHandleToken(Strip(texts[j]))]))
    ELSE None

extract_handle(results) == FirstHandle(TextsOf(results))

-----------------------------------------------------------------------------
(* VerificationResult *)

NoRole == "None"

TIER_ROLE_NAMES == <<"Signal Lite", "Signal Amplifier", "Top Signal">>

\* the threshold chains of VerificationResult.__init__ on val (in hundredths)
RoleFor(project, val) ==
    CASE project = "Kaito" ->
             IF 50 * 100 < val /\ val < 200 * 100 THEN "Signal Lite"
             ELSE IF 200 * 100 <= val /\ val < 1000 * 100 THEN "Signal Amplifier"
             ELSE IF val >= 1000 * 100 THEN "Top Signal"
             ELSE NoRole
      [] project = "Wallchain" ->
             IF 10 * 100 < val /\ val <= 75 * 100 THEN "Signal Lite"
             ELSE IF 76 * 100 <= val /\ val <= 400 * 100 THEN "Signal Amplifier"
             ELSE IF val >= 401 * 100 THEN "Top Signal"
             ELSE NoRole
      [] project = "Cookie" ->
             IF 10 * 100 <= val /\ val <= 200 * 100 THEN "Signal Lite"
             ELSE IF 201 * 100 <= val /\ val <= 400 * 100 THEN "Signal Amplifier"
             ELSE IF val >= 401 * 100 THEN "Top Signal"
             ELSE NoRole
      [] project = "Xeet" ->
             IF 100 * 100 <= val /\ val <= 300 * 100 THEN "Signal Lite"
             ELSE IF 301 * 100 <= val /\ val < 1100 * 100 THEN "Signal Amplifier"
             ELSE IF val >= 1100 * 100 THEN "Top Signal"
             ELSE NoRole
      [] OTHER -> NoRole

\* VerificationResult without the test of handle_match_error
VerificationResultUnguarded(detected_score, project, handle_match_error) ==
    [detected_score |-> detected_score,
     project |-> project,
     handle_match_error |-> handle_match_error,
     role_name |->
         IF /\ Truthy(detected_score)
            /\ FloatOk(RemoveCommas(detected_score))
            /\ ~FloatIsNan(RemoveCommas(detected_score))
         THEN RoleFor(project, FloatVal(RemoveCommas(detected_score)))
         ELSE NoRole]

\* VerificationResult.__init__: float() raising ValueError leaves role_name None;
\* with val nan every comparison of the chains is False and no branch assigns
VerificationResult(detected_score, project, handle_match_error) ==
    [detected_score |-> detected_score,
     project |-> project,
     handle_match_error |-> handle_match_error,
     role_name |->
         IF Truthy(detected_score) /\ ~Truthy(handle_match_error)
         THEN IF ~FloatOk(RemoveCommas(detected_score)) THEN NoRole
              ELSE IF FloatIsNan(RemoveCommas(detected_score)) THEN NoRole
              ELSE CHOOSE role \in {RoleFor(project, val) :
                                       val \in {FloatVal(RemoveCommas(detected_score))}} :
                       TRUE
         ELSE NoRole]

-----------------------------------------------------------------------------
(* Inputs of the model *)

\* requests of /verify that may run concurrently
NumRequests == 3

Requests == 1..NumRequests

\* int(getattr(config, "OCR_CONCURRENCY", os.getenv("OCR_CONCURRENCY", "4")) or 4):
\* a setting of the deployment (the source's default is 4), checked here with fewer
\* slots than requests
OCR_CONCURRENCY == 1

\* len(PROJECT_DETECT_ROIS)
NumDetectRois == 2

\* len(SCORE_ROIS[project]), the same for every project
NumScoreRois == 2

\* len(HANDLE_ROIS)
NumHandleRois == 2

\* the choices of the project option of /verify; no option is "auto"
Hints == {"auto", "Cookie", "Xeet", "Kaito", "Wallchain", "Mindoshare"}

Box(x0, x1, y0, y1) == [x0 |-> x0, x1 |-> x1, y0 |-> y0, y1 |-> y1]

Frag(t, b) == [bbox |-> b, text |-> t]

\* "Score" at box A, "287" directly below A and tall, "2.91" directly below A and
\* tiny, and the handle
FixtureFrame ==
    <<Frag(T_Score, Box(400, 480, 300, 320)),
      Frag(T_N287, Box(390, 490, 340, 400)),
      Frag(T_N2_91, Box(420, 460, 325, 335)),
      Frag(T_AtAlice, Box(20, 120, 20, 40))>>

\* the fixture under a header that names the dashboard
WallchainFrame == <<Frag(T_Wallchain, Box(300, 500, 10, 40))>> \o FixtureFrame

KaitoFrame ==
    <<Frag(T_TotalYaps, Box(100, 200, 300, 320)),
      Frag(T_N1c234, Box(100, 220, 330, 380)),
      Frag(T_AtBob, Box(20, 120, 20, 40))>>

XeetFrame ==
    <<Frag(T_N60, Box(50, 150, 500, 560)),
      Frag(T_XeetsEarned, Box(40, 200, 570, 590))>>

CookieFrame ==
    <<Frag(T_SnapsEarned, Box(100, 260, 400, 420)),
      Frag(T_N5000, Box(120, 240, 430, 480)),
      Frag(T_AtDots, Box(20, 120, 20, 40))>>

MindoshareFrame ==
    <<Frag(T_N42sp, Box(300, 380, 200, 260)),
      Frag(T_KolScore, Box(290, 400, 270, 290))>>

PlainFrame == <<Frag(T_Hello, Box(10, 90, 10, 30))>>

\* a "Yaps" caption over "60" on the left and a "Score" caption over "287" on the
\* right, with no keyword of the classifier
FallbackFrame ==
    <<Frag(T_Yaps, Box(100, 180, 300, 320)),
      Frag(T_N60, Box(100, 180, 340, 360)),
      Frag(T_Score, Box(400, 480, 300, 320)),
      Frag(T_N287, Box(390, 490, 340, 400))>>

Frames == {FixtureFrame, WallchainFrame, KaitoFrame, XeetFrame, CookieFrame,
           MindoshareFrame, PlainFrame, FallbackFrame}

\* x_username of the member's link row
Usernames == {<<"a", "l", "i", "c", "e">>, <<"B", "O", "B">>}

\* the early returns of verify_cmd before the semaphore
Prechecks == {"ok", "not_in_guild", "wrong_channel", "not_an_image", "not_linked"}

\* _PIL_OK, FAST_OCR and whether Image.open(...) decodes the bytes
Settings ==
    {[PIL_OK |-> TRUE, FAST_OCR |-> TRUE, decodable |-> TRUE],
     [PIL_OK |-> TRUE, FAST_OCR |-> TRUE, decodable |-> FALSE],
     [PIL_OK |-> TRUE, FAST_OCR |-> FALSE, decodable |-> TRUE],
     [PIL_OK |-> FALSE, FAST_OCR |-> TRUE, decodable |-> TRUE]}

NoInput ==
    [precheck |-> "ok", frame |-> <<>>, hint |-> "auto", x_username |-> <<>>,
     settings |-> [PIL_OK |-> TRUE, FAST_OCR |-> TRUE, decodable |-> TRUE]]

\* what one /verify call is given
Inputs ==
    {[precheck |-> "ok", frame |-> f, hint |-> h, x_username |-> u, settings |-> s] :
        f \in Frames, h \in Hints, u \in Usernames, s \in Settings}
    \cup {[NoInput EXCEPT !.precheck = p] : p \in Prechecks \ {"ok"}}

\* the texts of a frame at the indices of S, in the frame's order: what the
\* recognizer reads in a crop that shows the fragments S
RECURSIVE PickFrom(_, _, _)
PickFrom(texts, S, i) ==
    IF i > Len(texts) THEN <<>>
    ELSE (IF i \in S THEN <<texts[i]>> ELSE <<>>) \o PickFrom(texts, S, i + 1)

\* every answer of reader.readtext(crop, detail=0, ...) for a crop of the frame:
\* the texts of some of its fragments
CropReadings(frame) ==
    {PickFrom(TextsOf(frame), S, 1) : S \in SUBSET (1..Len(frame))}

-----------------------------------------------------------------------------
(* verify_cmd *)

NoLocals ==
    [k |-> 0, pil_img |-> FALSE, proj_fast |-> "Unknown", score_fast |-> None,
     handle_fast |-> None, used_fast |-> FALSE, has_results |-> FALSE,
     results |-> <<>>, project_name |-> "Unknown", score_val |-> None,
     img_handle |-> None, handle_error |-> None, role_name |-> NoRole,
     role_note |-> FALSE, role_assigned |-> NoRole]

\* what is remembered of the recognizer calls of a request: whether one raised,
\* whether a call was issued after one had raised, and the full-frame calls made
NoCalls == [raised |-> FALSE, after |-> FALSE, full |-> 0]

RoiCall(c, raises) ==
    [c EXCEPT !.after = c.after \/ c.raised, !.raised = c.raised \/ raises]

FullCall(c, raises) ==
    [c EXCEPT !.after = c.after \/ c.raised, !.raised = c.raised \/ raises,
              !.full = c.full + 1]

\* f"Found @{img_handle} in image, but your linked account is @{required_handle}"
MismatchMessage(img_handle, required_handle) ==
    <<"Found @">> \o img_handle \o <<" in image, but your linked account is @">>
        \o required_handle

\* the choice of the score and of the handle that ends the semaphore block
Decide(l) ==
    [l EXCEPT
        !.score_val =
            IF l.used_fast /\ l.score_fast # None /\ l.project_name # "Unknown"
            THEN l.score_fast
            ELSE IF ~l.has_results THEN None
            ELSE ExtractScore(l.project_name, l.results),
        !.img_handle =
            IF l.handle_fast = None /\ l.has_results
            THEN extract_handle(l.results)
            ELSE l.handle_fast]

\* used_fast as detect_project_score_and_handle returns it
UsedFast(proj, score) == proj # "Unknown" /\ score # None

\* NeedsFull that falls back only when the project is unknown
NeedsFullOnlyUnknown(used_fast, project_hint, proj_fast) == proj_fast = "Unknown"

\* NeedsFull that runs the full-frame pass whatever the fast path found
NeedsFullAlways(used_fast, project_hint, proj_fast) == TRUE

\* the test that sends verify_cmd to the full-frame pass
NeedsFull(used_fast, project_hint, proj_fast) ==
    ~used_fast \/ (project_hint # "auto" /\ proj_fast = "Unknown")

\* FullProject that classifies the full-frame results whatever the hint
FullProjectReclassified(project_hint, results) == classify_project(results)

\* project_name after the full-frame pass: the hint when one was given, else the
\* classification of the results
FullProject(project_hint, results) ==
    IF project_hint # "auto" THEN project_hint ELSE classify_project(results)

\* Semaphore.locked of OCR_SEMAPHORE: no slot is free, or somebody is queued
locked == permits = 0 \/ waiters # <<>>

\* index of the oldest entry of the deque w whose future is not done, 0 if none
FirstWaiting(w) ==
    IF \E i \in 1..Len(w) : ~w[i].done
    THEN CHOOSE i \in 1..Len(w) : ~w[i].done /\ \A j \in 1..(i - 1) : w[j].done
    ELSE 0

\* index of the oldest entry of the deque w whose future is done, 0 if none
FirstWoken(w) ==
    IF \E i \in 1..Len(w) : w[i].done
    THEN CHOOSE i \in 1..Len(w) : w[i].done /\ \A j \in 1..(i - 1) : ~w[j].done
    ELSE 0

\* WakeUpNext that wakes the newest waiter
WakeUpNewest(v, w) ==
    IF \E i \in 1..Len(w) : ~w[i].done
    THEN LET i == CHOOSE i \in 1..Len(w) :
                      ~w[i].done /\ \A j \in (i + 1)..Len(w) : w[j].done
         IN  [value |-> v - 1, waiters |-> [w EXCEPT ![i].done = TRUE]]
    ELSE [value |-> v, waiters |-> w]

\* Semaphore._wake_up_next on the counter v and the deque w: the oldest waiter
\* whose future is not done is given a slot and its future is completed
WakeUpNext(v, w) ==
    IF FirstWaiting(w) # 0
    THEN [value |-> v - 1, waiters |-> [w EXCEPT ![FirstWaiting(w)].done = TRUE]]
    ELSE [value |-> v, waiters |-> w]

\* Semaphore.release
Release(v, w) == WakeUpNext(v + 1, w)

\* ExitBlock that keeps the slot when the body raised
ExitBlockKeepsSlotOnRaise(v, w, raised) ==
    IF raised THEN [value |-> v, waiters |-> w] ELSE Release(v, w)

\* the async with OCR_SEMAPHORE block is left, by its end or by an exception of
\* its body: the slot is released either way
ExitBlock(v, w, raised) == Release(v, w)

\* detect_project_score_and_handle has returned with the locals l: verify_cmd either
\* goes on to the full-frame pass or decides and leaves the semaphore block
FastReturns(r, l) ==
    \E l1 \in {[l EXCEPT !.used_fast = UsedFast(l.proj_fast, l.score_fast),
                         !.project_name = l.proj_fast,
                         !.k = 0]} :
        IF NeedsFull(l1.used_fast, inp[r].hint, l1.proj_fast)
        THEN /\ pc' = [pc EXCEPT ![r] = "full"]
             /\ loc' = [loc EXCEPT ![r] = l1]
             /\ UNCHANGED <<permits, waiters>>
        ELSE /\ pc' = [pc EXCEPT ![r] = "check"]
             /\ loc' = [loc EXCEPT ![r] = Decide(l1)]
             /\ permits' = ExitBlock(permits, waiters, FALSE).value
             /\ waiters' = ExitBlock(permits, waiters, FALSE).waiters

\* the command is invoked: its early returns, else it defers the reply, reads the
\* attachment and comes to the semaphore
Invoke(r) ==
    /\ pc[r] = "idle"
    /\ IF inp[r].precheck # "ok"
       THEN /\ pc' = [pc EXCEPT ![r] = "done"]
            /\ replied' = [replied EXCEPT ![r] = inp[r].precheck]
       ELSE /\ pc' = [pc EXCEPT ![r] = "waiting"]
            /\ UNCHANGED replied
    /\ UNCHANGED <<inp, permits, waiters, loc, calls, granted, lab>>

\* FastAvailable that does not depend on the bytes being decodable
FastAvailableWithoutDecoding(s) == s.PIL_OK /\ s.FAST_OCR

\* detect_project_score_and_handle gets past its two early returns: Pillow is
\* there, FAST_OCR is on and Image.open succeeds
FastAvailable(s) == s.PIL_OK /\ s.FAST_OCR /\ s.decodable

\* the body of async with OCR_SEMAPHORE is entered, and
\* detect_project_score_and_handle runs up to its first recognizer call, or
\* returns at once when the fast path is off or the bytes do not decode
Enter(r) ==
    /\ LET s == inp[r].settings
           hinted == inp[r].hint # "auto"
       IN  IF ~FastAvailable(s)
           THEN /\ pc' = [pc EXCEPT ![r] = "full"]
                /\ loc' = [loc EXCEPT ![r] = [NoLocals EXCEPT !.project_name = "Unknown"]]
           ELSE IF hinted
           THEN /\ pc' = [pc EXCEPT ![r] = "score"]
                /\ loc' = [loc EXCEPT ![r] =
                              [NoLocals EXCEPT !.pil_img = TRUE, !.k = 1,
                                               !.proj_fast = inp[r].hint]]
           ELSE /\ pc' = [pc EXCEPT ![r] = "detect"]
                /\ loc' = [loc EXCEPT ![r] = [NoLocals EXCEPT !.pil_img = TRUE, !.k = 1]]
    /\ UNCHANGED <<inp, calls, replied, granted, lab>>

\* Acquire that does not wait for a free slot
AcquireWithoutWaiting(r) ==
    /\ pc[r] = "waiting"
    /\ permits' = permits - 1
    /\ UNCHANGED waiters
    /\ Enter(r)

\* async with OCR_SEMAPHORE calls acquire: a request that finds the semaphore not
\* locked takes a slot and enters at once; any other joins the deque and suspends
Acquire(r) ==
    /\ pc[r] = "waiting"
    /\ IF ~locked
       THEN /\ permits' = permits - 1
            /\ UNCHANGED waiters
            /\ Enter(r)
       ELSE /\ waiters' = Append(waiters, [req |-> r, done |-> FALSE])
            /\ pc' = [pc EXCEPT ![r] = "suspended"]
            /\ UNCHANGED <<inp, permits, loc, calls, replied, granted, lab>>

\* a suspended request whose future a release has completed resumes inside
\* acquire: it leaves the deque, passes a spare slot on and enters.  The event
\* loop resumes woken requests in the order in which they were woken
Resume(r) ==
    /\ pc[r] = "suspended"
    /\ FirstWoken(waiters) # 0
    /\ waiters[FirstWoken(waiters)].req = r
    /\ LET rest == SelectSeq(waiters, LAMBDA w : w.req # r)
           sem == IF permits > 0 THEN WakeUpNext(permits, rest)
                  ELSE [value |-> permits, waiters |-> rest]
       IN  /\ permits' = sem.value
           /\ waiters' = sem.waiters
    /\ Enter(r)

\* _fast_detect_project: the recognizer answers for detection ROI k.  An exception
\* ends the scan with "Unknown"; a classified blob ends it with the project; the
\* score ROIs are read next unless the project is "Unknown"
DetectRoi(r) ==
    /\ pc[r] = "detect"
    /\ \E raises \in BOOLEAN, texts \in CropReadings(inp[r].frame) :
        LET l == loc[r]
            found == IF raises THEN "Unknown"
                     ELSE FastClassifyBlob(Lower(JoinSpace(texts)))
        IN  /\ calls' = [calls EXCEPT ![r] = RoiCall(calls[r], raises)]
            /\ IF found # "Unknown"
               THEN /\ pc' = [pc EXCEPT ![r] = "score"]
                    /\ loc' = [loc EXCEPT ![r] = [l EXCEPT !.proj_fast = found, !.k = 1]]
               ELSE IF ~raises /\ l.k < NumDetectRois
               THEN /\ pc' = pc
                    /\ loc' = [loc EXCEPT ![r] = [l EXCEPT !.k = l.k + 1]]
               ELSE /\ pc' = [pc EXCEPT ![r] = "handle"]
                    /\ loc' = [loc EXCEPT ![r] = [l EXCEPT !.k = 1]]
    /\ UNCHANGED <<inp, permits, waiters, replied, granted, lab>>

\* _fast_extract_score: the recognizer answers for score ROI k.  An exception moves
\* on to the next ROI; the first ROI with a number ends the scan
ScoreRoi(r) ==
    /\ pc[r] = "score"
    /\ \E raises \in BOOLEAN, texts \in CropReadings(inp[r].frame) :
        LET l == loc[r]
            score == IF raises THEN None
                     ELSE best_number_from_texts(texts, l.proj_fast)
        IN  /\ calls' = [calls EXCEPT ![r] = RoiCall(calls[r], raises)]
            /\ IF Truthy(score)
               THEN /\ pc' = [pc EXCEPT ![r] = "handle"]
                    /\ loc' = [loc EXCEPT ![r] = [l EXCEPT !.score_fast = score, !.k = 1]]
               ELSE IF l.k < NumScoreRois
               THEN /\ pc' = pc
                    /\ loc' = [loc EXCEPT ![r] = [l EXCEPT !.k = l.k + 1]]
               ELSE /\ pc' = [pc EXCEPT ![r] = "handle"]
                    /\ loc' = [loc EXCEPT ![r] = [l EXCEPT !.k = 1]]
    /\ UNCHANGED <<inp, permits, waiters, replied, granted, lab>>

\* _fast_extract_handle: the recognizer answers for handle ROI k.  An exception
\* ends the scan with None; the first handle token ends it; then
\* detect_project_score_and_handle returns
HandleRoi(r) ==
    /\ pc[r] = "handle"
    /\ \E raises \in BOOLEAN, texts \in CropReadings(inp[r].frame) :
        LET l == loc[r]
            handle == IF raises THEN None ELSE FirstHandle(texts)
        IN  /\ calls' = [calls EXCEPT ![r] = RoiCall(calls[r], raises)]
            /\ IF ~raises /\ handle = None /\ l.k < NumHandleRois
               THEN /\ pc' = pc
                    /\ loc' = [loc EXCEPT ![r] = [l EXCEPT !.k = l.k + 1]]
                    /\ UNCHANGED <<permits, waiters>>
               ELSE FastReturns(r, [l EXCEPT !.handle_fast = handle])
    /\ UNCHANGED <<inp, replied, granted, lab>>

\* _full_run: reader.readtext on the whole image.  Its exception leaves the
\* semaphore block and reaches verify_cmd's except clause; its result is
\* classified unless a hint was given, and the block decides and ends
FullRun(r) ==
    /\ pc[r] = "full"
    /\ \E raises \in BOOLEAN :
        /\ calls' = [calls EXCEPT ![r] = FullCall(calls[r], raises)]
        /\ IF raises
           THEN /\ pc' = [pc EXCEPT ![r] = "failed"]
                /\ replied' = [replied EXCEPT ![r] = "Verification failed"]
                /\ UNCHANGED loc
           ELSE /\ pc' = [pc EXCEPT ![r] = "check"]
                /\ UNCHANGED replied
                /\ \E l \in {[loc[r] EXCEPT
                               !.has_results = TRUE,
                               !.results = inp[r].frame,
                               !.project_name =
                                   FullProject(inp[r].hint, inp[r].frame)]} :
                       loc' = [loc EXCEPT ![r] = Decide(l)]
        /\ permits' = ExitBlock(permits, waiters, raises).value
        /\ waiters' = ExitBlock(permits, waiters, raises).waiters
    /\ UNCHANGED <<inp, granted, lab>>

\* HandleError that compares the handle as written with the lowered username
HandleErrorCaseSensitive(img_handle, x_username) ==
    IF Truthy(img_handle) /\ img_handle # Lower(x_username)
    THEN MismatchMessage(img_handle, Lower(x_username))
    ELSE None

\* the identity check of verify_cmd
HandleError(img_handle, x_username) ==
    IF Truthy(img_handle) /\ Lower(img_handle) # Lower(x_username)
    THEN MismatchMessage(img_handle, Lower(x_username))
    ELSE None

\* the identity check, the VerificationResult and the test that guards
\* assign_tier_role
Check(r) ==
    /\ pc[r] = "check"
    /\ \E result \in {VerificationResult(loc[r].score_val, loc[r].project_name,
                          HandleError(loc[r].img_handle, inp[r].x_username))} :
           /\ loc' = [loc EXCEPT ![r] =
                         [@ EXCEPT !.handle_error = result.handle_match_error,
                                   !.role_name = result.role_name]]
           /\ pc' = [pc EXCEPT ![r] =
                        IF result.role_name # NoRole /\ ~Truthy(result.handle_match_error)
                        THEN "assign" ELSE "log"]
    /\ UNCHANGED <<inp, permits, waiters, calls, replied, granted, lab>>

\* assign_tier_role returns (True, ...) with the role given, or (False, msg)
Assign(r) ==
    /\ pc[r] = "assign"
    /\ \E ok \in BOOLEAN :
        /\ granted' = [granted EXCEPT ![r] = IF ok THEN loc[r].role_name ELSE @]
        /\ loc' = [loc EXCEPT ![r].role_note = ~ok]
    /\ pc' = [pc EXCEPT ![r] = "log"]
    /\ UNCHANGED <<inp, permits, waiters, calls, replied, lab>>

\* database.log_result(..., role_assigned=result.role_name) and the reply with
\* the result embed; loc.role_assigned is the value written to
\* verification_history and user_metrics
Log(r) ==
    /\ pc[r] = "log"
    /\ pc' = [pc EXCEPT ![r] = "done"]
    /\ loc' = [loc EXCEPT ![r].role_assigned = loc[r].role_name]
    /\ replied' = [replied EXCEPT ![r] = "result"]
    /\ UNCHANGED <<inp, permits, waiters, calls, granted, lab>>

Next ==
    \E r \in Requests :
        \/ Invoke(r)
        \/ Acquire(r)
        \/ DetectRoi(r)
        \/ ScoreRoi(r)
        \/ HandleRoi(r)
        \/ FullRun(r)
        \/ Check(r)
        \/ Assign(r)
        \/ Log(r)

\* the steps of concurrent requests: those of Next and the resumption of a
\* request that was suspended at the semaphore
NextGate ==
    \/ Next
    \/ \E r \in Requests : Resume(r)

NoLab == [op |-> "none"]

\* one /verify call with any input
Init ==
    /\ \E i \in Inputs :
           inp = [r \in Requests |-> IF r = 1 THEN i ELSE NoInput]
    /\ pc = [r \in Requests |-> IF r = 1 THEN "idle" ELSE "absent"]
    /\ permits = OCR_CONCURRENCY
    /\ waiters = <<>>
    /\ loc = [r \in Requests |-> NoLocals]
    /\ calls = [r \in Requests |-> NoCalls]
    /\ replied = [r \in Requests |-> "nothing"]
    /\ granted = [r \in Requests |-> NoRole]
    /\ lab = NoLab

Spec == Init /\ [][Next]_vars

-----------------------------------------------------------------------------
(* Concurrent /verify calls *)

GateFrame == <<Frag(T_N287, Box(390, 490, 340, 400))>>

\* the inputs of concurrent requests: a hinted request whose score the fast path
\* may find, an unhinted one that ends in the full-frame pass, and requests whose
\* image Pillow does not decode, which go to the full-frame pass at once
GateInput(r) ==
    IF r = 1
    THEN [NoInput EXCEPT !.frame = GateFrame, !.hint = "Wallchain",
                         !.x_username = <<"a", "l", "i", "c", "e">>]
    ELSE IF r = 2
    THEN [NoInput EXCEPT !.frame = PlainFrame,
                         !.x_username = <<"B", "O", "B">>]
    ELSE [NoInput EXCEPT !.frame = PlainFrame,
                         !.x_username = <<"B", "O", "B">>,
                         !.settings.decodable = FALSE]

InitGate ==
    /\ inp = [r \in Requests |-> GateInput(r)]
    /\ pc = [r \in Requests |-> "idle"]
    /\ permits = OCR_CONCURRENCY
    /\ waiters = <<>>
    /\ loc = [r \in Requests |-> NoLocals]
    /\ calls = [r \in Requests |-> NoCalls]
    /\ replied = [r \in Requests |-> "nothing"]
    /\ granted = [r \in Requests |-> NoRole]
    /\ lab = NoLab

SpecGate == InitGate /\ [][NextGate]_vars

\* a request that can take a step: any that has not ended, except a suspended
\* one that is not the next to resume
Runnable(r) ==
    \/ pc[r] \in {"idle", "waiting", "detect", "score", "handle", "full", "check",
                  "assign", "log"}
    \/ /\ pc[r] = "suspended"
       /\ FirstWoken(waiters) # 0
       /\ waiters[FirstWoken(waiters)].req = r

\* some request can take a step
CanStep == \E r \in Requests : Runnable(r)

\* CanStep is the enabling condition of NextGate
CanStepIsEnabled == CanStep <=> ENABLED <<NextGate>>_vars

\* the event loop keeps running the requests that can take a step, and every
\* recognizer call returns or raises: weak fairness of NextGate, WF_vars(NextGate),
\* with its enabling condition written out as CanStep
SpecGateLive ==
    /\ InitGate /\ [][NextGate]_vars
    /\ ([]<>(~CanStep) \/ []<><<NextGate>>_vars)

-----------------------------------------------------------------------------
(* Pure functions applied to drawn inputs: lab holds the call and its result *)

InitLab ==
    /\ inp = [r \in Requests |-> NoInput]
    /\ pc = [r \in Requests |-> "absent"]
    /\ permits = OCR_CONCURRENCY
    /\ waiters = <<>>
    /\ loc = [r \in Requests |-> NoLocals]
    /\ calls = [r \in Requests |-> NoCalls]
    /\ replied = [r \in Requests |-> "nothing"]
    /\ granted = [r \in Requests |-> NoRole]
    /\ lab = NoLab

\* sequences over S of length at most n
SeqsUpTo(S, n) == UNION {[1..m -> S] : m \in 0..n}

\* greatest whole score drawn for the tier table
MaxScore == 1110

RECURSIVE Numeral(_)
\* the decimal numeral of n
Numeral(n) ==
    IF n < 10 THEN <<DigitChars[n + 1]>>
    ELSE Numeral(n \div 10) \o <<DigitChars[(n % 10) + 1]>>

\* decimal parts drawn for the tier table, with their value in hundredths
Fractions ==
    {[text |-> <<>>, value |-> 0],
     [text |-> <<".", "5">>, value |-> 50],
     [text |-> <<".", "9">>, value |-> 90],
     [text |-> <<".", "0", "1">>, value |-> 1]}

Mismatches == {None, MismatchMessage(<<"x">>, <<"y">>)}

\* VerificationResult(score, project, handle_match_error) for a numeral
TierCall ==
    /\ lab = NoLab
    /\ \E project \in Sources, n \in 0..MaxScore, f \in Fractions, m \in Mismatches :
           lab' = [op |-> "VerificationResult", project |-> project,
                   score |-> Numeral(n) \o f.text, value |-> 100 * n + f.value,
                   mismatch |-> m,
                   result |-> VerificationResult(Numeral(n) \o f.text, project, m)]
    /\ UNCHANGED pipeVars

\* VerificationResult(score, project, handle_match_error) for a missing score or a
\* text that is no plain numeral
OddScores ==
    {None, <<>>, T_Hello, T_N1c234, T_N42sp,
     <<"i", "n", "f">>, <<"I", "n", "f", "i", "n", "i", "t", "y">>, <<"n", "a", "n">>,
     <<"1", ".", "2", ".", "3">>}

TierCallOdd ==
    /\ lab = NoLab
    /\ \E project \in Sources, s \in OddScores, m \in Mismatches :
           lab' = [op |-> "VerificationResult", project |-> project,
                   score |-> s, value |-> -1, mismatch |-> m,
                   result |-> VerificationResult(s, project, m)]
    /\ UNCHANGED pipeVars

SpecTier == InitLab /\ [][TierCall \/ TierCallOdd]_vars

\* longest list of texts drawn for the classifier
MaxTexts == 2

ClassifyPool ==
    {T_Wallchain, T_Kaito, T_Quack, T_Balance, T_TotalYaps, T_Total, T_Yaps,
     T_XeetsEarned, T_SnapsEarned, T_Cookie, T_KolScore, T_Mindoshare, T_Hello}

FastPool == {T_Wallchain, T_Kaito, T_Quack, T_Balance, T_Hello}

NoBox == Box(0, 0, 0, 0)

ClassifyCall ==
    /\ lab = NoLab
    /\ \E texts \in SeqsUpTo(ClassifyPool, MaxTexts) :
           lab' = [op |-> "classify_project", texts |-> texts,
                   result |-> classify_project(
                                  [i \in 1..Len(texts) |-> Frag(texts[i], NoBox)])]
    /\ UNCHANGED pipeVars

\* what a recognizer call on a crop does: it raises, or returns texts
Raises == [raises |-> TRUE, texts |-> <<>>]

Reads(texts) == [raises |-> FALSE, texts |-> texts]

RECURSIVE FastDetectFrom(_, _)
\* the loop of _fast_detect_project from ROI k on, given each ROI's recognizer
\* outcome
FastDetectFrom(rois, k) ==
    IF k > Len(rois) THEN "Unknown"
    ELSE IF rois[k].raises THEN "Unknown"
    ELSE IF FastClassifyBlob(Lower(JoinSpace(rois[k].texts))) # "Unknown"
    THEN FastClassifyBlob(Lower(JoinSpace(rois[k].texts)))
    ELSE FastDetectFrom(rois, k + 1)

fast_detect_project(rois) == FastDetectFrom(rois, 1)

FastDetectCall ==
    /\ lab = NoLab
    /\ \E rois \in [1..NumDetectRois ->
                       {Raises} \cup {Reads(t) : t \in SeqsUpTo(FastPool, MaxTexts)}] :
           lab' = [op |-> "_fast_detect_project", rois |-> rois,
                   result |-> fast_detect_project(rois)]
    /\ UNCHANGED pipeVars

SpecClassify == InitLab /\ [][ClassifyCall \/ FastDetectCall]_vars

\* most numeric fragments drawn beside a label
MaxCands == 2

LabelBox == Box(400, 480, 300, 320)

\* boxes for a numeric fragment around LabelBox: below or above it, near or far,
\* tall or small, centred on the label or off to the right by dx
\* and one more, far below with its centre 100 to the right
CandBoxes ==
    {Box(400 + dx, 480 + dx, y, y + h) :
        dx \in {0, 150}, y \in {330, 400, 200, 250}, h \in {10, 40}}
        \cup {Box(500, 580, 700, 740)}

CandTexts == <<T_N287, T_N60, T_N1c234, T_N5000>>

Strategies == {"Wallchain", "Kaito", "Xeet", "Cookie", "Mindoshare"}

LabelText(strategy) ==
    CASE strategy = "Wallchain" -> T_Score
      [] strategy = "Kaito" -> T_TotalYaps
      [] strategy = "Xeet" -> T_XeetsEarned
      [] strategy = "Cookie" -> T_SnapsEarned
      [] strategy = "Mindoshare" -> T_KolScore

\* the label of a strategy followed or preceded by numeric fragments
LocateFrames(strategy) ==
    {IF first THEN <<Frag(LabelText(strategy), LabelBox)>> \o c
              ELSE c \o <<Frag(LabelText(strategy), LabelBox)>> :
        first \in BOOLEAN,
        c \in {[i \in 1..Len(bs) |-> Frag(CandTexts[i], bs[i])] :
                  bs \in SeqsUpTo(CandBoxes, MaxCands)}}

CandidatesFor(strategy, results) ==
    CASE strategy = "Wallchain" -> WallchainCandidates(results)
      [] strategy = "Kaito" -> KaitoCandidates(results)
      [] strategy = "Xeet" -> XeetCandidates(results)
      [] strategy = "Cookie" -> CookieCandidates(results)
      [] strategy = "Mindoshare" -> MindoshareCandidates(results)

\* extract_<source>_score(results)
LocateCall ==
    /\ lab = NoLab
    /\ \E strategy \in Strategies :
        \E results \in LocateFrames(strategy) :
           lab' = [op |-> "extract_score", strategy |-> strategy,
                   results |-> results,
                   candidates |-> CandidatesFor(strategy, results),
                   result |-> ExtractScore(strategy, results)]
    /\ UNCHANGED pipeVars

\* a second place for a caption, too far to the right for its number to count
\* for a caption at LabelBox
LabelBoxRight == Box(700, 780, 300, 320)

\* captions that are, or are not, the word "Score" in some letter case
CaptionTexts ==
    {T_Score, T_ScoreUp, <<"s", "c", "o", "r", "e">>,
     <<" ", "S", "c", "o", "r", "e", " ">>, T_Hello}

\* two captions, each with a number below it, in either order
CaptionFrames ==
    {IF swap THEN right \o left ELSE left \o right :
        swap \in BOOLEAN,
        left \in {<<Frag(t, LabelBox), Frag(T_N287, Box(400, 480, 330, 370))>> :
                     t \in CaptionTexts},
        right \in {<<Frag(t, LabelBoxRight), Frag(T_N60, Box(700, 780, 330, 370))>> :
                      t \in CaptionTexts}}

\* extract_wallchain_score(results) on captioned frames
WallchainLabelCall ==
    /\ lab = NoLab
    /\ \E results \in CaptionFrames :
           lab' = [op |-> "extract_wallchain_score",
                   results |-> results,
                   label |-> WallchainLabel(results),
                   result |-> extract_wallchain_score(results)]
    /\ UNCHANGED pipeVars

\* captions of a Kaito screenshot: both words in one fragment, either word alone,
\* and a text that is no caption
KaitoCaptionTexts == {T_TotalYaps, T_Total, T_Yaps, <<" ", "y", "a", "p", "s", " ">>, T_Hello}

\* two captions, each with a number below it, in either order; the number below
\* one caption is too far to the side to count for the other
KaitoCaptionFrames ==
    {IF swap THEN right \o left ELSE left \o right :
        swap \in BOOLEAN,
        left \in {<<Frag(t, LabelBox), Frag(T_N287, Box(400, 480, 330, 370))>> :
                     t \in KaitoCaptionTexts},
        right \in {<<Frag(t, LabelBoxRight), Frag(T_N60, Box(700, 780, 330, 370))>> :
                      t \in KaitoCaptionTexts}}

\* extract_kaito_score(results) on captioned frames
KaitoLabelCall ==
    /\ lab = NoLab
    /\ \E results \in KaitoCaptionFrames :
           lab' = [op |-> "extract_kaito_score",
                   results |-> results,
                   label |-> KaitoLabel(results),
                   result |-> extract_kaito_score(results)]
    /\ UNCHANGED pipeVars

SpecLocate == InitLab /\ [][LocateCall \/ WallchainLabelCall \/ KaitoLabelCall]_vars

\* texts drawn for the handle locator
HandlePool ==
    {T_AtAlice, T_AtBob, T_AtDots, T_AtAb, T_Hello,
     <<" ", "@", "@", "c", "a", "t", ",", " ">>}

\* extract_handle(results)
HandleCall ==
    /\ lab = NoLab
    /\ \E texts \in SeqsUpTo(HandlePool, MaxTexts) :
           lab' = [op |-> "extract_handle", texts |-> texts,
                   result |-> extract_handle(
                                  [i \in 1..Len(texts) |-> Frag(texts[i], NoBox)])]
    /\ UNCHANGED pipeVars

\* texts drawn for a score ROI: under 10, between 10 and 50, over 50
ScorePool == {T_N2_91, T_N42sp, T_N1c234}

RECURSIVE FastScoreFrom(_, _, _)
\* the loop of _fast_extract_score from ROI k on, given each ROI's recognizer
\* outcome: an exception moves on to the next ROI
FastScoreFrom(rois, project, k) ==
    IF k > Len(rois) THEN None
    ELSE IF rois[k].raises THEN FastScoreFrom(rois, project, k + 1)
    ELSE IF Truthy(best_number_from_texts(rois[k].texts, project))
    THEN best_number_from_texts(rois[k].texts, project)
    ELSE FastScoreFrom(rois, project, k + 1)

fast_extract_score(rois, project) == FastScoreFrom(rois, project, 1)

\* _fast_extract_score(img, project) for the projects with and without a least
\* value
FastScoreCall ==
    /\ lab = NoLab
    /\ \E project \in {"Wallchain", "Xeet", "Kaito"},
          rois \in [1..NumScoreRois ->
                       {Raises} \cup {Reads(t) : t \in SeqsUpTo(ScorePool, MaxTexts)}] :
           lab' = [op |-> "_fast_extract_score", project |-> project, rois |-> rois,
                   result |-> fast_extract_score(rois, project)]
    /\ UNCHANGED pipeVars

SpecExtract == InitLab /\ [][HandleCall \/ FastScoreCall]_vars

-----------------------------------------------------------------------------
(* assign_tier_role on one member, called by verifications that may overlap. *)
(* lab holds the member's tier roles and each call's position and locals.    *)

TierRoles == {TIER_ROLE_NAMES[i] : i \in 1..Len(TIER_ROLE_NAMES)}

\* the verifications of one member that may be in assign_tier_role together
Verifications == {"first", "second"}

\* a verification that is not in assign_tier_role
IdleCall == [pc |-> "idle", role_name |-> NoRole, to_remove |-> {}, ok |-> FALSE,
             held |-> {}]

\* the call returns (ok, msg); held is member.roles, tier roles only, at that time
Returned(c, ok, roles) == [c EXCEPT !.pc = "returned", !.ok = ok, !.held = roles]

InitRoles ==
    /\ inp = [r \in Requests |-> NoInput]
    /\ pc = [r \in Requests |-> "absent"]
    /\ permits = OCR_CONCURRENCY
    /\ waiters = <<>>
    /\ loc = [r \in Requests |-> NoLocals]
    /\ calls = [r \in Requests |-> NoCalls]
    /\ replied = [r \in Requests |-> "nothing"]
    /\ granted = [r \in Requests |-> NoRole]
    /\ lab = [op |-> "assign_tier_role", roles |-> {},
              call |-> [v \in Verifications |-> IdleCall]]

\* assign_tier_role up to its first await that suspends: the target role is
\* missing (it could not be created) and the call returns False, or to_remove is
\* computed from member.roles and remove_roles or add_roles is awaited, or neither
\* is needed and the call returns True
AssignCall(v) ==
    /\ lab.op = "assign_tier_role"
    /\ lab.call[v].pc = "idle"
    /\ \E role_name \in TierRoles, target_exists \in BOOLEAN :
        LET to_remove == lab.roles \ {role_name}
            c == [lab.call[v] EXCEPT !.role_name = role_name, !.to_remove = to_remove]
        IN  lab' = [lab EXCEPT !.call[v] =
                IF ~target_exists THEN Returned(c, FALSE, lab.roles)
                ELSE IF to_remove # {} THEN [c EXCEPT !.pc = "remove_roles"]
                ELSE IF role_name \notin lab.roles THEN [c EXCEPT !.pc = "add_roles"]
                ELSE Returned(c, TRUE, lab.roles)]
    /\ UNCHANGED pipeVars

\* member.remove_roles(*to_remove) completes or raises Forbidden; then the test
\* `target_role not in member.roles`
RemoveRoles(v) ==
    /\ lab.op = "assign_tier_role"
    /\ lab.call[v].pc = "remove_roles"
    /\ \E forbidden \in BOOLEAN :
        LET c == lab.call[v]
            roles == lab.roles \ c.to_remove
        IN  lab' = IF forbidden
                   THEN [lab EXCEPT !.call[v] = Returned(c, FALSE, lab.roles)]
                   ELSE [lab EXCEPT !.roles = roles,
                                    !.call[v] = IF c.role_name \notin roles
                                                THEN [c EXCEPT !.pc = "add_roles"]
                                                ELSE Returned(c, TRUE, roles)]
    /\ UNCHANGED pipeVars

\* member.add_roles(target_role) completes or raises Forbidden
AddRoles(v) ==
    /\ lab.op = "assign_tier_role"
    /\ lab.call[v].pc = "add_roles"
    /\ \E forbidden \in BOOLEAN :
        LET c == lab.call[v]
            roles == lab.roles \cup {c.role_name}
        IN  lab' = IF forbidden
                   THEN [lab EXCEPT !.call[v] = Returned(c, FALSE, lab.roles)]
                   ELSE [lab EXCEPT !.roles = roles, !.call[v] = Returned(c, TRUE, roles)]
    /\ UNCHANGED pipeVars

\* the member verifies again
VerifyAgain(v) ==
    /\ lab.op = "assign_tier_role"
    /\ lab.call[v].pc = "returned"
    /\ lab' = [lab EXCEPT !.call[v] = IdleCall]
    /\ UNCHANGED pipeVars

SpecRoles ==
    InitRoles /\ [][\E v \in Verifications :
                       \/ AssignCall(v)
                       \/ RemoveRoles(v)
                       \/ AddRoles(v)
                       \/ VerifyAgain(v)]_vars

-----------------------------------------------------------------------------
(* database.py: the tables x_accounts and user_metrics as sets of rows keyed  *)
(* by discord_id, and the commands that write them.  lab holds the tables,    *)
(* the last call with what it found and answered, and the ids whose link was  *)
(* deleted and not saved again.  Timestamps, and the columns of x_accounts    *)
(* that no other table receives, are left out.                                *)

NULL == "NULL"

DiscordIds == {"u1", "u2"}

\* the rows of table with primary key id: none or one
RowsOf(table, id) == {row \in table : row.discord_id = id}

\* INSERT ... ON CONFLICT (discord_id) DO UPDATE SET the columns cols from the
\* row that was to be inserted
Upsert(table, new, cols) ==
    IF RowsOf(table, new.discord_id) = {} THEN table \cup {new}
    ELSE {IF row.discord_id = new.discord_id
          THEN [c \in DOMAIN row |-> IF c \in cols THEN new[c] ELSE row[c]]
          ELSE row : row \in table}

\* a row of user_metrics with every column left to its default
MetricsRow(discord_id) ==
    [discord_id |-> discord_id, discord_username |-> NULL, x_username |-> NULL,
     verified |-> NULL, last_score |-> NULL, role_assigned |-> NULL]

\* delete_link's statement on user_metrics without its SET of x_username and
\* verified
MetricsAfterDeleteKept(metrics, discord_id) ==
    Upsert(metrics,
           [MetricsRow(discord_id) EXCEPT !.x_username = NULL, !.verified = "false"],
           {})

\* the statements of save_link on x_accounts and on user_metrics
AccountsAfterSave(accounts, discord_id, data) ==
    Upsert(accounts,
           [discord_id |-> discord_id, x_username |-> data.x_username,
            verified |-> data.verified],
           {"x_username", "verified"})

MetricsAfterSave(metrics, discord_id, data) ==
    Upsert(metrics,
           [MetricsRow(discord_id) EXCEPT !.x_username = data.x_username,
                                          !.verified = data.verified],
           {"x_username", "verified"})

\* the statements of delete_link
AccountsAfterDelete(accounts, discord_id) == accounts \ RowsOf(accounts, discord_id)

MetricsAfterDelete(metrics, discord_id) ==
    Upsert(metrics,
           [MetricsRow(discord_id) EXCEPT !.x_username = NULL, !.verified = "false"],
           {"x_username", "verified"})

\* what delete_link returns
DeleteLinkReturns(accounts, discord_id) == TRUE

\* the statement of log_result on user_metrics
MetricsAfterLog(metrics, discord_id, discord_username, score, role_assigned) ==
    Upsert(metrics,
           [MetricsRow(discord_id) EXCEPT !.discord_username = discord_username,
                                          !.last_score = score,
                                          !.role_assigned = role_assigned],
           {"discord_username", "last_score", "role_assigned"})

\* the statement of upsert_user_identity
MetricsAfterIdentity(metrics, discord_id, discord_username) ==
    Upsert(metrics,
           [MetricsRow(discord_id) EXCEPT !.discord_username = discord_username,
                                          !.verified = "false"],
           {"discord_username"})

\* the last call: its name and id, whether x_accounts had a row for the id and
\* which row user_metrics had when it began, and the command's reply
Called(call, discord_id, reply) ==
    [call |-> call, discord_id |-> discord_id,
     had_link |-> RowsOf(lab.x_accounts, discord_id) # {},
     before |-> RowsOf(lab.user_metrics, discord_id),
     reply |-> reply]

InitDb ==
    /\ inp = [r \in Requests |-> NoInput]
    /\ pc = [r \in Requests |-> "absent"]
    /\ permits = OCR_CONCURRENCY
    /\ waiters = <<>>
    /\ loc = [r \in Requests |-> NoLocals]
    /\ calls = [r \in Requests |-> NoCalls]
    /\ replied = [r \in Requests |-> "nothing"]
    /\ granted = [r \in Requests |-> NoRole]
    /\ lab = [op |-> "database", x_accounts |-> {}, user_metrics |-> {},
              unlinked |-> {},
              last |-> [call |-> "none", discord_id |-> NULL, had_link |-> FALSE,
                        before |-> {}, reply |-> NULL]]

\* the payload x_callback builds from the X user
LinkPayloads == [x_username : {"alice", "bob"}, verified : {"true", "false"}]

\* database.save_link(discord_id, data)
SaveLink ==
    /\ lab.op = "database"
    /\ \E discord_id \in DiscordIds, data \in LinkPayloads :
           lab' = [lab EXCEPT
               !.x_accounts = AccountsAfterSave(@, discord_id, data),
               !.user_metrics = MetricsAfterSave(@, discord_id, data),
               !.unlinked = @ \ {discord_id},
               !.last = Called("save_link", discord_id, NULL)]
    /\ UNCHANGED pipeVars

\* /xunlink: database.delete_link(discord_id) and the reply
Xunlink ==
    /\ lab.op = "database"
    /\ \E discord_id \in DiscordIds :
           lab' = [lab EXCEPT
               !.x_accounts = AccountsAfterDelete(@, discord_id),
               !.user_metrics = MetricsAfterDelete(@, discord_id),
               !.unlinked = @ \cup {discord_id},
               !.last = Called("delete_link", discord_id,
                               IF DeleteLinkReturns(lab.x_accounts, discord_id)
                               THEN "Unlinked." ELSE "You were not linked.")]
    /\ UNCHANGED pipeVars

\* database.log_result(...)
LogResult ==
    /\ lab.op = "database"
    /\ \E discord_id \in DiscordIds,
          logged \in {[score |-> "287", role_assigned |-> "Signal Amplifier"],
                      [score |-> "5", role_assigned |-> NULL]} :
           lab' = [lab EXCEPT
               !.user_metrics = MetricsAfterLog(@, discord_id, "name#1",
                                    logged.score, logged.role_assigned),
               !.last = Called("log_result", discord_id, NULL)]
    /\ UNCHANGED pipeVars

\* database.upsert_user_identity(discord_id, discord_username)
UpsertUserIdentity ==
    /\ lab.op = "database"
    /\ \E discord_id \in DiscordIds, discord_username \in {"name#1", "name#2"} :
           lab' = [lab EXCEPT
               !.user_metrics = MetricsAfterIdentity(@, discord_id, discord_username),
               !.last = Called("upsert_user_identity", discord_id, NULL)]
    /\ UNCHANGED pipeVars

SpecDb == InitDb /\ [][SaveLink \/ Xunlink \/ LogResult \/ UpsertUserIdentity]_vars

-----------------------------------------------------------------------------
(* verify_service.py: /x/start and /x/callback over the pending-state file.  *)
(* The service is one process and one event loop (uvicorn.run(app)), so the  *)
(* code of a handler between two awaits is one step.  lab holds the pending  *)
(* entries, the callbacks past the state check, the links saved, and for the *)
(* properties: the entries ever issued, how often each state was accepted,   *)
(* the states whose token exchange failed and the last response.             *)

\* values of secrets.token_urlsafe(24)
OAuthStates == {"s1", "s2"}

\* most acceptances of one state that are counted
MaxAccepted == 2

\* pending.pop(state, None) without removing the entry
PendingKept(pending, state) == pending

\* the pending file after pending.pop(state, None)
PendingAfterPop(pending, state) == {p \in pending : p.state # state}

\* the handler's answer to the last request
Answered(state, response) == [state |-> state, response |-> response]

InitOauth ==
    /\ inp = [r \in Requests |-> NoInput]
    /\ pc = [r \in Requests |-> "absent"]
    /\ permits = OCR_CONCURRENCY
    /\ waiters = <<>>
    /\ loc = [r \in Requests |-> NoLocals]
    /\ calls = [r \in Requests |-> NoCalls]
    /\ replied = [r \in Requests |-> "nothing"]
    /\ granted = [r \in Requests |-> NoRole]
    /\ lab = [op |-> "oauth", pending |-> {}, issued |-> {},
              accepted |-> [s \in OAuthStates |-> 0], failed |-> {},
              inflight |-> {}, links |-> {}, last |-> Answered(NULL, "none")]

\* /x/start: a link whose signature does not verify is refused; otherwise a new
\* state is stored with the discord_id
XStart ==
    /\ lab.op = "oauth"
    /\ \E discord_id \in DiscordIds, sig_ok \in BOOLEAN,
          state \in OAuthStates \ {p.state : p \in lab.issued} :
        LET entry == [state |-> state, discord_id |-> discord_id]
        IN  lab' = IF ~sig_ok
                   THEN [lab EXCEPT !.last = Answered(NULL, "bad signature")]
                   ELSE [lab EXCEPT !.pending = {p \in @ : p.state # state} \cup {entry},
                                    !.issued = @ \cup {entry},
                                    !.last = Answered(state, "redirect")]
    /\ UNCHANGED pipeVars

\* /x/callback up to its first await: the early returns, then the entry of the
\* state is popped and the file written; without an entry the request is refused
XCallback ==
    /\ lab.op = "oauth"
    /\ \E state \in OAuthStates, error \in BOOLEAN, code \in BOOLEAN :
        LET st == {p \in lab.pending : p.state = state}
        IN  lab' =
              IF error THEN [lab EXCEPT !.last = Answered(state, "X login failed")]
              ELSE IF ~code THEN [lab EXCEPT !.last = Answered(state, "Missing code")]
              ELSE IF st = {}
              THEN [lab EXCEPT !.pending = PendingAfterPop(@, state),
                               !.last = Answered(state, "Invalid/expired state")]
              ELSE [lab EXCEPT
                       !.pending = PendingAfterPop(@, state),
                       !.accepted[state] =
                           IF @ < MaxAccepted THEN @ + 1 ELSE @,
                       !.inflight = @ \cup {[state |-> p.state,
                                             discord_id |-> p.discord_id,
                                             pc |-> "token_exchange"] : p \in st},
                       !.last = Answered(state, "accepted")]
    /\ UNCHANGED pipeVars

\* _token_exchange answers: a status other than 200 raises and ends the request
TokenExchange ==
    /\ lab.op = "oauth"
    /\ \E c \in lab.inflight, ok \in BOOLEAN :
        /\ c.pc = "token_exchange"
        /\ lab' = IF ok
                  THEN [lab EXCEPT !.inflight =
                                       (@ \ {c}) \cup {[c EXCEPT !.pc = "users_me"]}]
                  ELSE [lab EXCEPT !.inflight = @ \ {c},
                                   !.failed = @ \cup {c.state},
                                   !.last = Answered(c.state, "token exchange failed")]
    /\ UNCHANGED pipeVars

\* _users_me answers: a status other than 200 raises and ends the request
UsersMe ==
    /\ lab.op = "oauth"
    /\ \E c \in lab.inflight, ok \in BOOLEAN :
        /\ c.pc = "users_me"
        /\ lab' = IF ok
                  THEN [lab EXCEPT !.inflight =
                                       (@ \ {c}) \cup {[c EXCEPT !.pc = "save_link"]}]
                  ELSE [lab EXCEPT !.inflight = @ \ {c},
                                   !.last = Answered(c.state, "/2/users/me failed")]
    /\ UNCHANGED pipeVars

\* database.save_link(st["discord_id"], link_payload) and the success page
CallbackSaves ==
    /\ lab.op = "oauth"
    /\ \E c \in lab.inflight :
        /\ c.pc = "save_link"
        /\ lab' = [lab EXCEPT !.inflight = @ \ {c},
                              !.links = @ \cup {[state |-> c.state,
                                                 discord_id |-> c.discord_id]},
                              !.last = Answered(c.state, "success")]
    /\ UNCHANGED pipeVars

NextOauth == XStart \/ XCallback \/ TokenExchange \/ UsersMe \/ CallbackSaves

SpecOauth == InitOauth /\ [][NextOauth]_vars


(***************************************************************************)
(* Properties of verify_cmd                                                *)
(***************************************************************************)

\* request r passed the checks made ahead of the recognition pipeline
Admitted(r) == inp[r].precheck = "ok"

\* the identity check and the VerificationResult of request r are made
Decided(r) == Admitted(r) /\ pc[r] \in {"assign", "log", "done"}

\* request r has left the semaphore block with a score decision
PastRecognition(r) == Admitted(r) /\ pc[r] \in {"check", "assign", "log", "done"}

\* request r has left the ROI fast path
PastFast(r) ==
    Admitted(r) /\ pc[r] \in {"full", "check", "assign", "log", "done", "failed"}

\* a and b are the same text up to letter case, compared character by character
EqualIgnoringCase(a, b) ==
    /\ Len(a) = Len(b)
    /\ \A i \in 1..Len(a) : LowerChar(a[i]) = LowerChar(b[i])

\* C1: whenever the detected score is absent or an identity mismatch is set,
\* the tier of the verification result is None, whatever the source and the
\* score, and the command grants the member no tier role.
C1_NoTierWithoutScoreOrOnMismatch ==
    \A r \in Requests :
        Decided(r) /\ (loc[r].score_val = None \/ loc[r].handle_error # None)
            => loc[r].role_name = NoRole /\ granted[r] = NoRole

\* a finished verification whose score alone earns the top tier, with a
\* mismatched handle: no tier and no role
C1_TopScoreWithMismatch ==
    \E r \in Requests :
        /\ pc[r] = "done" /\ replied[r] = "result"
        /\ loc[r].handle_error # None
        /\ loc[r].score_val # None
        /\ FloatOk(RemoveCommas(loc[r].score_val))
        /\ RoleFor(loc[r].project_name, FloatVal(RemoveCommas(loc[r].score_val)))
               = "Top Signal"
        /\ loc[r].role_name = NoRole /\ granted[r] = NoRole

\* the fixture frame submitted with source auto by the member alice
FixtureRun(r) ==
    /\ inp[r].precheck = "ok"
    /\ inp[r].frame = FixtureFrame
    /\ inp[r].hint = "auto"
    /\ Lower(inp[r].x_username) = <<"a", "l", "i", "c", "e">>

\* C3 as stated: the frame with a "Score" label at (400..480, 300..320), "287"
\* in a tall box below it, "2.91" in a small box and "@alice", verified with
\* source auto, yields source Wallchain, score "287", handle "alice", tier
\* Signal Amplifier and no mismatch.
C3_FixtureYieldsWallchainAmplifier ==
    \A r \in Requests :
        pc[r] = "done" /\ replied[r] = "result" /\ FixtureRun(r)
            => /\ loc[r].project_name = "Wallchain"
               /\ loc[r].score_val = T_N287
               /\ loc[r].img_handle = <<"a", "l", "i", "c", "e">>
               /\ loc[r].role_name = "Signal Amplifier"
               /\ loc[r].handle_error = None

\* C3: the same frame verified with source auto yields score "287", handle
\* "alice" and no mismatch, with source Unknown and therefore tier None: none
\* of its texts contains a keyword of the classifier.
C3_FixtureYieldsUnknownSource ==
    \A r \in Requests :
        pc[r] = "done" /\ replied[r] = "result" /\ FixtureRun(r)
            => /\ loc[r].project_name = "Unknown"
               /\ loc[r].score_val = T_N287
               /\ loc[r].img_handle = <<"a", "l", "i", "c", "e">>
               /\ loc[r].role_name = NoRole
               /\ loc[r].handle_error = None
               /\ granted[r] = NoRole

\* the fixture frame verified to the end
C3_FixtureVerified ==
    \E r \in Requests :
        /\ pc[r] = "done" /\ replied[r] = "result" /\ FixtureRun(r)
        /\ loc[r].score_val = T_N287
        /\ calls[r].full = 1

C8_UsedFastIffSourceAndScore ==
    \A r \in Requests :
        PastFast(r) =>
            /\ loc[r].used_fast
                   <=> loc[r].proj_fast # "Unknown" /\ loc[r].score_fast # None
            /\ ~loc[r].used_fast => pc[r] = "full" \/ calls[r].full = 1
            /\ loc[r].used_fast /\ PastRecognition(r)
                   => loc[r].score_val = loc[r].score_fast

\* a verification finished on the fast path alone
C8_FinishedOnFastPath ==
    \E r \in Requests :
        /\ pc[r] = "done" /\ replied[r] = "result"
        /\ loc[r].used_fast
        /\ calls[r].full = 0
        /\ loc[r].score_val = loc[r].score_fast

\* C9: a failure of the text recognizer is fatal to the request: once a
\* recognizer call has raised, no further recognizer call is made for the
\* request, and it ends with the failure message and not with a result.
C9_RecognizerFailureIsFatal ==
    \A r \in Requests :
        calls[r].raised =>
            /\ ~calls[r].after
            /\ pc[r] = "failed"
            /\ replied[r] = "Verification failed"

\* C10: the score of a result, from the fast path or from a strategy, has its
\* grouping separators stripped: it contains no comma and, surrounding spaces
\* aside, is digits with an optional decimal part.
C10_ScoreHasSeparatorsStripped ==
    \A r \in Requests :
        PastRecognition(r) /\ loc[r].score_val # None
            => /\ ~Contains(loc[r].score_val, <<",">>)
               /\ IsNumeral(Strip(loc[r].score_val))

(***************************************************************************)
(* Properties of the semaphore                                             *)
(***************************************************************************)

\* the suspended requests that a release has given a slot and that have not
\* resumed yet
Woken == {waiters[i].req : i \in {j \in 1..Len(waiters) : waiters[j].done}}

\* the requests inside the semaphore block
InPipeline == {r \in Requests : pc[r] \in {"detect", "score", "handle", "full"}}

\* C7: at most OCR_CONCURRENCY requests are inside the recognition pipeline at
\* any time; each of them holds exactly one slot from its entry to the end of
\* its ROI pass and full-frame pass.
C7_AtMostConcurrencyInPipeline ==
    /\ Cardinality(InPipeline) <= OCR_CONCURRENCY
    /\ permits = OCR_CONCURRENCY - Cardinality(InPipeline) - Cardinality(Woken)

\* every slot is taken and another request waits for one
C7_AllSlotsTakenOneWaiting ==
    /\ Cardinality(InPipeline) = OCR_CONCURRENCY
    /\ permits = 0
    /\ \E r \in Requests : pc[r] = "suspended"


(***************************************************************************)
(* Properties of the tier table                                            *)
(***************************************************************************)

\* no upper end
Unbounded == 100 * (MaxScore + 2)

\* the threshold table as rows: source, tier, and the scores (in hundredths)
\* from lo to hi, an end left out where its flag is TRUE
ThresholdTable ==
    {[source |-> "Kaito", tier |-> "Signal Lite",
      lo |-> 5000, loOut |-> TRUE, hi |-> 20000, hiOut |-> TRUE],
     [source |-> "Kaito", tier |-> "Signal Amplifier",
      lo |-> 20000, loOut |-> FALSE, hi |-> 100000, hiOut |-> TRUE],
     [source |-> "Kaito", tier |-> "Top Signal",
      lo |-> 100000, loOut |-> FALSE, hi |-> Unbounded, hiOut |-> FALSE],
     [source |-> "Wallchain", tier |-> "Signal Lite",
      lo |-> 1000, loOut |-> TRUE, hi |-> 7500, hiOut |-> FALSE],
     [source |-> "Wallchain", tier |-> "Signal Amplifier",
      lo |-> 7600, loOut |-> FALSE, hi |-> 40000, hiOut |-> FALSE],
     [source |-> "Wallchain", tier |-> "Top Signal",
      lo |-> 40100, loOut |-> FALSE, hi |-> Unbounded, hiOut |-> FALSE],
     [source |-> "Cookie", tier |-> "Signal Lite",
      lo |-> 1000, loOut |-> FALSE, hi |-> 20000, hiOut |-> FALSE],
     [source |-> "Cookie", tier |-> "Signal Amplifier",
      lo |-> 20100, loOut |-> FALSE, hi |-> 40000, hiOut |-> FALSE],
     [source |-> "Cookie", tier |-> "Top Signal",
      lo |-> 40100, loOut |-> FALSE, hi |-> Unbounded, hiOut |-> FALSE],
     [source |-> "Xeet", tier |-> "Signal Lite",
      lo |-> 10000, loOut |-> FALSE, hi |-> 30000, hiOut |-> FALSE],
     [source |-> "Xeet", tier |-> "Signal Amplifier",
      lo |-> 30100, loOut |-> FALSE, hi |-> 110000, hiOut |-> TRUE],
     [source |-> "Xeet", tier |-> "Top Signal",
      lo |-> 110000, loOut |-> FALSE, hi |-> Unbounded, hiOut |-> FALSE]}

\* row covers score x of source
Covers(row, source, x) ==
    /\ row.source = source
    /\ IF row.loOut THEN row.lo < x ELSE row.lo <= x
    /\ IF row.hiOut THEN x < row.hi ELSE x <= row.hi

\* C2: with a numeric score and no mismatch, the tier of the result is the tier
\* of the threshold table's row that covers the score, and None when no row
\* covers it; Unknown and Mindoshare have no row.
C2_TierFollowsThresholdTable ==
    lab.op = "VerificationResult" /\ lab.value >= 0 /\ lab.mismatch = None
        => /\ \A row \in ThresholdTable :
                  Covers(row, lab.project, lab.value)
                      => lab.result.role_name = row.tier
           /\ (\A row \in ThresholdTable : ~Covers(row, lab.project, lab.value))
                  => lab.result.role_name = NoRole

\* Kaito with score "199.9": Signal Lite, one tenth under the Amplifier row
C2_KaitoJustUnderAmplifier ==
    /\ lab.op = "VerificationResult"
    /\ lab.project = "Kaito"
    /\ lab.score = <<"1", "9", "9", ".", "9">>
    /\ lab.mismatch = None
    /\ lab.result.role_name = "Signal Lite"

(***************************************************************************)
(* Properties of the classifier                                            *)
(***************************************************************************)

\* the keyword groups in priority order
KeywordGroups ==
    <<[source |-> "Wallchain", keywords |-> {K_wallchain, K_quacks, K_quack_balance}],
      [source |-> "Kaito", keywords |-> {K_kaito, K_total_yaps, K_earned_yaps}],
      [source |-> "Xeet", keywords |-> {K_xeet, K_xeets_earned}],
      [source |-> "Cookie", keywords |-> {K_cookie, K_snaps_earned, K_total_snaps}],
      [source |-> "Mindoshare", keywords |-> {K_kol_score, K_mindoshare}]>>

\* the texts joined by spaces, letters lowered
CaseFolded(texts) == Lower(JoinSpace(texts))

\* the groups with a keyword in text
GroupsIn(text) ==
    {g \in DOMAIN KeywordGroups :
        \E kw \in KeywordGroups[g].keywords : Contains(text, kw)}

\* the source of the first group with a keyword in text, Unknown when there is
\* none
FirstSource(text) ==
    IF GroupsIn(text) = {} THEN "Unknown"
    ELSE KeywordGroups[CHOOSE g \in GroupsIn(text) :
                           \A h \in GroupsIn(text) : g <= h].source

\* the detection ROIs whose texts _fast_detect_project gets to see: those before
\* which no call raised and no ROI held a keyword
RoisSeen(rois) ==
    {k \in DOMAIN rois :
        /\ \A j \in 1..k : ~rois[j].raises
        /\ \A j \in 1..(k - 1) : GroupsIn(CaseFolded(rois[j].texts)) = {}}

\* C4: the classifier always returns a source: the first in the order Wallchain,
\* Kaito, Xeet, Cookie, Mindoshare with a keyword in the case-folded text, and
\* Unknown exactly when the text has no keyword; texts with a Wallchain and a
\* Kaito keyword classify as Wallchain.  The fast path classifies the texts of
\* the first detection ROI that holds a keyword.
C4_ClassifierReturnsFirstSourceInOrder ==
    /\ lab.op = "classify_project"
           => /\ lab.result = FirstSource(CaseFolded(lab.texts))
              /\ lab.result = "Unknown" <=> GroupsIn(CaseFolded(lab.texts)) = {}
              /\ {1, 2} \subseteq GroupsIn(CaseFolded(lab.texts))
                     => lab.result = "Wallchain"
    /\ lab.op = "_fast_detect_project"
           => /\ \A k \in RoisSeen(lab.rois) :
                     LET text == CaseFolded(lab.rois[k].texts)
                     IN  /\ GroupsIn(text) # {} => lab.result = FirstSource(text)
                         /\ {1, 2} \subseteq GroupsIn(text) => lab.result = "Wallchain"
              /\ lab.result = "Unknown"
                     <=> \A k \in RoisSeen(lab.rois) :
                             GroupsIn(CaseFolded(lab.rois[k].texts)) = {}

\* texts "Kaito" then "Wallchain" classify as Wallchain
C4_KaitoThenWallchain ==
    /\ lab.op = "classify_project"
    /\ lab.texts = <<T_Kaito, T_Wallchain>>
    /\ lab.result = "Wallchain"

(***************************************************************************)
(* Properties of the score strategies                                      *)
(***************************************************************************)

\* C5: in each of the five strategies the text returned is that of a candidate
\* of the greatest height and, among the candidates of that height, of the
\* smallest distance from the label.
C5_TallestThenNearestCandidate ==
    lab.op = "extract_score" /\ lab.candidates # <<>>
        => \E i \in DOMAIN lab.candidates :
               /\ lab.result = lab.candidates[i].text
               /\ \A j \in DOMAIN lab.candidates :
                      /\ lab.candidates[j].h <= lab.candidates[i].h
                      /\ lab.candidates[j].h = lab.candidates[i].h
                             => lab.candidates[i].d <= lab.candidates[j].d

\* two candidates, the second taller and farther than the first: the second is
\* returned
C5_TallerAndFartherWins ==
    /\ lab.op = "extract_score"
    /\ Len(lab.candidates) = 2
    /\ lab.candidates[2].h > lab.candidates[1].h
    /\ lab.candidates[2].d > lab.candidates[1].d
    /\ lab.result = lab.candidates[2].text
    /\ lab.result # lab.candidates[1].text


\* C11: with an explicit source hint the source of the outcome is the hint on
\* every path: fast path successful or not, bytes not decodable, fast OCR
\* disabled; the full-frame pass does not reclassify.
C11_HintIsTheSource ==
    \A r \in Requests :
        PastRecognition(r) /\ inp[r].hint # "auto"
            => loc[r].project_name = inp[r].hint

\* a full-frame pass under a hint that differs from what the frame classifies as
C11_HintKeptAgainstClassification ==
    \E r \in Requests :
        /\ pc[r] = "done" /\ replied[r] = "result"
        /\ calls[r].full = 1
        /\ inp[r].hint = "Kaito"
        /\ classify_project(inp[r].frame) = "Wallchain"
        /\ loc[r].project_name = "Kaito"


\* C12: the handle of the outcome is the fast-path handle when the fast path
\* found one, and otherwise the handle that extract_handle finds in the
\* full-frame fragments: a handle present in the frame is used and compared with
\* the linked username whenever the fast path found none.
C12_HandleFromFastPathElseFullFrame ==
    \A r \in Requests :
        PastRecognition(r)
            => loc[r].img_handle =
                   IF loc[r].handle_fast # None THEN loc[r].handle_fast
                   ELSE extract_handle(inp[r].frame)


\* the bytes of request r do not decode, or Pillow is missing
NoDecodedImage(r) ==
    Admitted(r) /\ (~inp[r].settings.decodable \/ ~inp[r].settings.PIL_OK)

\* C13: when the bytes cannot be decoded, or decoding is unavailable, the fast
\* path is skipped (no ROI call is made), the full-frame recognizer is called on
\* the raw bytes, and the request ends with an outcome computed from the
\* full-frame fragments; it fails only if that recognizer call raises.
C13_UndecodableGoesToFullFrame ==
    \A r \in Requests :
        NoDecodedImage(r) =>
            /\ pc[r] \notin {"detect", "score", "handle"}
            /\ ~loc[r].pil_img /\ ~loc[r].used_fast
            /\ pc[r] = "failed" => calls[r].raised /\ calls[r].full = 1
            /\ PastRecognition(r) =>
                   /\ calls[r].full = 1 /\ ~calls[r].raised
                   /\ loc[r].has_results /\ loc[r].results = inp[r].frame
                   /\ loc[r].project_name =
                          IF inp[r].hint # "auto" THEN inp[r].hint
                          ELSE classify_project(inp[r].frame)
                   /\ loc[r].score_val = ExtractScore(loc[r].project_name, inp[r].frame)
                   /\ loc[r].img_handle = extract_handle(inp[r].frame)

\* undecodable bytes, Pillow and the fast path available: a result with a score
\* from the full-frame pass
C13_UndecodableVerified ==
    \E r \in Requests :
        /\ pc[r] = "done" /\ replied[r] = "result"
        /\ inp[r].precheck = "ok"
        /\ ~inp[r].settings.decodable
        /\ inp[r].settings.PIL_OK /\ inp[r].settings.FAST_OCR
        /\ calls[r].full = 1
        /\ loc[r].score_val # None


\* the result of the strategy of a known source on results
StrategyResult(source, results) ==
    CASE source = "Mindoshare" -> extract_mindoshare_score(results)
      [] source = "Wallchain" -> extract_wallchain_score(results)
      [] source = "Kaito" -> extract_kaito_score(results)
      [] source = "Xeet" -> extract_xeet_score(results)
      [] source = "Cookie" -> extract_cookie_score(results)

\* the order of the fallback sequence
FallbackOrder == <<"Mindoshare", "Wallchain", "Kaito">>

\* the first non-empty result of the fallback sequence on results, None when
\* every strategy comes back empty
FallbackResult(results) ==
    LET found == {i \in DOMAIN FallbackOrder :
                     Truthy(StrategyResult(FallbackOrder[i], results))}
    IN  IF found = {} THEN None
        ELSE StrategyResult(
                 FallbackOrder[CHOOSE i \in found : \A j \in found : i <= j], results)

\* C14: after a full-frame pass the score of an Unknown source is the first
\* non-empty result of the Mindoshare, Wallchain and Kaito strategies in that
\* order; the score of a known source is the result of its own strategy alone,
\* also when that is empty.
C14_FallbackSequenceOnlyForUnknown ==
    \A r \in Requests :
        PastRecognition(r) /\ loc[r].has_results
            => loc[r].score_val =
                   IF loc[r].project_name = "Unknown"
                   THEN FallbackResult(inp[r].frame)
                   ELSE StrategyResult(loc[r].project_name, inp[r].frame)

\* an Unknown frame on which the Wallchain strategy finds "287" and the Kaito
\* strategy finds "60": the score is "287"
C14_WallchainBeforeKaito ==
    \E r \in Requests :
        /\ PastRecognition(r) /\ loc[r].has_results
        /\ loc[r].project_name = "Unknown"
        /\ extract_mindoshare_score(inp[r].frame) = None
        /\ extract_wallchain_score(inp[r].frame) = T_N287
        /\ extract_kaito_score(inp[r].frame) = T_N60
        /\ loc[r].score_val = T_N287


(***************************************************************************)
(* More properties of the tier table                                       *)
(***************************************************************************)

QueuePos(r) ==
    IF \E i \in 1..Len(waiters) : waiters[i].req = r
    THEN CHOOSE i \in 1..Len(waiters) : waiters[i].req = r
    ELSE 0

\* the requests that came to the semaphore before r and have not entered yet:
\* those queued ahead of r, or everybody queued when r is not queued itself
WaitingBefore(r) ==
    {waiters[i].req :
        i \in 1..(IF QueuePos(r) = 0 THEN Len(waiters) ELSE QueuePos(r) - 1)}

\* C16: a request that comes to the semaphore when no slot is free does not
\* enter, it suspends; a suspended request enters only after a release gave it a
\* slot; and no request enters the pipeline while a request that came to the
\* semaphore before it is still waiting (first come, first served).
C16_SuspendedAdmittedInArrivalOrder ==
    [][\A r \in Requests :
          /\ (pc[r] = "waiting" /\ permits = 0)
                => pc'[r] \in {"waiting", "suspended"}
          /\ (pc[r] = "suspended" /\ r \notin Woken)
                => pc'[r] = "suspended"
          /\ (pc[r] \in {"waiting", "suspended"}
                /\ pc'[r] \in {"detect", "score", "handle", "full"})
                => WaitingBefore(r) = {}]_vars

\* two requests are suspended and a release has given the slot to the older one
C16_OlderOfTwoWoken ==
    /\ Len(waiters) = 2
    /\ waiters[1].done
    /\ ~waiters[2].done
    /\ pc[waiters[1].req] = "suspended"
    /\ pc[waiters[2].req] = "suspended"


(***************************************************************************)
(* Release of the slots                                                    *)
(***************************************************************************)

\* every request has ended in an outcome, an error or an early return
AllFinished == \A r \in Requests : pc[r] \in {"done", "failed"}

\* C17: every request that holds a slot eventually leaves the semaphore block
\* and gives the slot back, also when the recognizer raises (a failed request
\* holds none); so, every recognizer call returning or raising, every suspended
\* request eventually stops being suspended, which it does only by entering the
\* pipeline; every request eventually ends; and once all have ended every slot
\* is free again and nobody is queued.
C17_SlotsAreReleasedAndAllRequestsEnd ==
    /\ \A r \in Requests : <>[](r \notin InPipeline \cup Woken)
    /\ \A r \in Requests : <>[](pc[r] # "suspended")
    /\ [][\A r \in Requests :
             (pc[r] = "suspended" /\ pc'[r] # "suspended")
                 => pc'[r] \in {"detect", "score", "handle", "full"}]_vars
    /\ [](\A r \in Requests : pc[r] = "failed" => r \notin InPipeline \cup Woken)
    /\ <>[](AllFinished /\ permits = OCR_CONCURRENCY /\ waiters = <<>>)

\* the full-frame pass of one request has raised and its slot went to a request
\* that was suspended
C17_SlotOfFailedRequestPassedOn ==
    \E a, b \in Requests :
        /\ pc[a] = "failed"
        /\ pc[b] = "suspended"
        /\ b \in Woken
        /\ permits = 0


(***************************************************************************)
(* Stages of a request                                                     *)
(***************************************************************************)

\* C18: the full-frame recognizer is called at most once for a request; the
\* request comes to it only from the end of the ROI fast path or, the fast path
\* being skipped, from the semaphore; it is called only when the fast path did
\* not succeed; and after the call has returned or raised the request decides or
\* fails, and goes back neither to the fast path nor to the full-frame pass.
C18_FullFrameAtMostOnceAndLast ==
    [][\A r \in Requests :
          /\ calls'[r].full <= 1
          /\ (pc'[r] = "full" /\ pc[r] # "full")
                => \/ pc[r] = "handle"
                   \/ /\ pc[r] \in {"waiting", "suspended"}
                      /\ ~FastAvailable(inp[r].settings)
          /\ calls'[r].full # calls[r].full
                => /\ pc[r] = "full"
                   /\ calls[r].full = 0
                   /\ ~loc[r].used_fast
                   /\ pc'[r] \in {"check", "failed"}
          /\ calls[r].full = 1
                => pc'[r] \notin {"detect", "score", "handle", "full"}]_vars

\* a request whose fast path ran and did not succeed has ended after one
\* full-frame pass
C18_DoneAfterFallbackFull ==
    \E r \in Requests :
        /\ pc[r] = "done" /\ replied[r] = "result"
        /\ loc[r].pil_img
        /\ ~loc[r].used_fast
        /\ calls[r].full = 1


\* C19: when a source hint is given and the ROI fast path has run on an image
\* whose texts classify as another source than the hint, the full-frame pass is
\* run, even if the fast path found a score.
C19_HintDisagreementForcesFullPass ==
    \A r \in Requests :
        (/\ PastRecognition(r)
         /\ inp[r].hint # "auto"
         /\ loc[r].pil_img
         /\ classify_project(inp[r].frame) \notin {"Unknown", inp[r].hint})
            => calls[r].full = 1


\* C20: the Wallchain strategy takes as its label the first fragment whose
\* trimmed text is "Score" in any letter case, and returns no candidate when no
\* fragment is.
C20_WallchainLabelIgnoresCase ==
    lab.op = "extract_wallchain_score" =>
        LET labels == {i \in 1..Len(lab.results) :
                          EqualIgnoringCase(Strip(lab.results[i].text), K_Score)}
        IN  /\ labels = {} => lab.label = 0 /\ lab.result = None
            /\ labels # {} =>
                   /\ lab.label \in labels
                   /\ \A i \in labels : lab.label <= i

\* index of the first fragment of the recorded results among those in S
FirstOf(S) == CHOOSE i \in S : \A j \in S : i <= j

\* C21: the Kaito strategy anchors its search on the first fragment, in scan
\* order, that holds both "total" and "yaps"; when there is none, on the first
\* fragment that is "yaps" or "total" alone; and it returns no candidate when no
\* fragment is a label.
C21_KaitoLabelIsFirstMatch ==
    lab.op = "extract_kaito_score" =>
        LET t(i) == Strip(Lower(lab.results[i].text))
            both == {i \in 1..Len(lab.results) :
                        Contains(t(i), K_total) /\ Contains(t(i), K_yaps)}
            alone == {i \in 1..Len(lab.results) : t(i) = K_yaps \/ t(i) = K_total}
        IN  /\ both # {} => lab.label = FirstOf(both)
            /\ (both = {} /\ alone # {}) => lab.label = FirstOf(alone)
            /\ (both = {} /\ alone = {}) => (lab.label = 0 /\ lab.result = None)

\* the fragment that is the caption in a frame of LocateFrames(strategy)
CaptionOf(strategy, results) ==
    CHOOSE j \in 1..Len(results) : results[j].text = LabelText(strategy)

\* the horizontal tolerance of a strategy in px, 0 for the radius search
TolerancePx(strategy) ==
    CASE strategy \in {"Wallchain", "Mindoshare"} -> 100
      [] strategy = "Kaito" -> 300
      [] strategy = "Xeet" -> 200
      [] strategy = "Cookie" -> 0

\* box b lies past the label box lb in the search direction of the strategy and
\* within its tolerance; centres are compared doubled
WithinReach(strategy, b, lb) ==
    CASE strategy \in {"Wallchain", "Kaito"} ->
             /\ b.y0 >= lb.y1
             /\ Abs((b.x0 + b.x1) - (lb.x0 + lb.x1)) < 2 * TolerancePx(strategy)
      [] strategy \in {"Xeet", "Mindoshare"} ->
             /\ b.y1 <= lb.y0
             /\ Abs((b.x0 + b.x1) - (lb.x0 + lb.x1)) < 2 * TolerancePx(strategy)
      [] strategy = "Cookie" ->
             ((b.x0 + b.x1) - (lb.x0 + lb.x1)) * ((b.x0 + b.x1) - (lb.x0 + lb.x1))
               + ((b.y0 + b.y1) - (lb.y0 + lb.y1)) * ((b.y0 + b.y1) - (lb.y0 + lb.y1))
                 < 4 * 300 * 300

\* the numeral a fragment's text stands for: trimmed, thousands separators removed
Normalised(t) == RemoveCommas(Strip(t))

\* C22: a score returned by a full-path strategy is the text (as read, or trimmed
\* and without separators) of a fragment that is a strict numeral, lies past the
\* label in the strategy's search direction and is within its tolerance of the
\* label: below and under 100 px (Wallchain) or 300 px (Kaito) of horizontal
\* centre offset, above and under 200 px (Xeet) or 100 px (Mindoshare), or under
\* 300 px of centre distance in any direction (Cookie).
C22_ScoreIsNumeralWithinReach ==
    (lab.op = "extract_score" /\ lab.result # None) =>
        \E i \in 1..Len(lab.results) :
            /\ lab.result \in {lab.results[i].text, Normalised(lab.results[i].text)}
            /\ IsNumeral(Normalised(lab.results[i].text))
            /\ WithinReach(lab.strategy, lab.results[i].bbox,
                   lab.results[CaptionOf(lab.strategy, lab.results)].bbox)

\* a score was returned from a frame with another numeral that is out of reach
C22_OtherNumeralOutOfReach ==
    /\ lab.op = "extract_score"
    /\ lab.result # None
    /\ lab.strategy = "Cookie"
    /\ \E i \in 1..Len(lab.results) :
           /\ IsNumeral(Normalised(lab.results[i].text))
           /\ lab.results[i].bbox.y0 = 700

\* C23: the handle locator takes the first fragment, in scan order, whose trimmed
\* text starts with "@" and is longer than 3 characters, and returns that text
\* without its leading "@" and without trim-set punctuation around it; a later
\* "@" fragment is never chosen, and the result is absent when no fragment
\* qualifies.
C23_HandleFromFirstAtFragment ==
    lab.op = "extract_handle" =>
        LET trimmed(i) == StripChars(lab.texts[i], {" "})
            qualifies == {i \in 1..Len(lab.texts) :
                             /\ Len(trimmed(i)) > 3
                             /\ trimmed(i)[1] = "@"}
            bare(t) == StripChars(StripChars(LStripChars(t, {"@"}), {" "}),
                           {".", ",", ";", ":", "!", ")", "]", "}", "("})
        IN  /\ qualifies = {} => lab.result = None
            /\ qualifies # {} => lab.result = bare(trimmed(FirstOf(qualifies)))

\* two fragments qualify and name different handles
C23_EarlierOfTwoHandles ==
    /\ lab.op = "extract_handle"
    /\ Len(lab.texts) = 2
    /\ lab.texts[1] = T_AtBob
    /\ lab.texts[2] = T_AtAlice
    /\ lab.result = <<"B", "o", "b">>

\* the least value the fast path keeps for a source
LeastPlausible(source) ==
    CASE source = "Wallchain" -> 10
      [] source = "Xeet" -> 50
      [] OTHER -> 0

\* the numerals read in ROI k of the recorded call that pass the filter
Plausible(k) ==
    IF lab.rois[k].raises THEN {}
    ELSE {n \in {NumsOf(lab.rois[k].texts)[i] : i \in 1..Len(NumsOf(lab.rois[k].texts))} :
             FloatVal(RemoveCommas(n)) >= 100 * LeastPlausible(lab.project)}

\* C24: the fast-path score is, for the first score ROI in list order that holds
\* a numeral passing the source's plausibility filter (at least 10 for Wallchain,
\* at least 50 for Xeet, none otherwise), the numeral of greatest magnitude among
\* those that pass in that ROI; it is absent when no ROI holds one.
C24_GreatestPlausibleOfFirstRoi ==
    lab.op = "_fast_extract_score" =>
        LET yields == {k \in 1..Len(lab.rois) : Plausible(k) # {}}
        IN  /\ yields = {} => lab.result = None
            /\ yields # {} =>
                   /\ lab.result \in Plausible(FirstOf(yields))
                   /\ \A n \in Plausible(FirstOf(yields)) :
                          FloatVal(RemoveCommas(n)) <= FloatVal(RemoveCommas(lab.result))

\* the first ROI holds only a numeral under the least value, the second decides
C24_SecondRoiDecides ==
    /\ lab.op = "_fast_extract_score"
    /\ lab.project = "Wallchain"
    /\ lab.rois[1] = Reads(<<T_N2_91>>)
    /\ lab.rois[2] = Reads(<<T_N42sp, T_N1c234>>)
    /\ lab.result = T_N1c234

\* the order None < Lite < Amplifier < Top
TierRank(role) ==
    CASE role = NoRole -> 0
      [] role = "Signal Lite" -> 1
      [] role = "Signal Amplifier" -> 2
      [] role = "Top Signal" -> 3

\* some score x <= y (in hundredths) is covered by row
CoversSomeScoreUpTo(row, y) == IF row.loOut THEN row.lo < y ELSE row.lo <= y

\* C26: for Kaito, Wallchain, Cookie and Xeet the tier is monotone in the score:
\* when a numeric score x <= y (no mismatch) earns a tier, y earns that tier or a
\* higher one, so every score at or above the least score that earns Signal Lite
\* earns some tier.
C26_TierMonotoneInScore ==
    (lab.op = "VerificationResult" /\ lab.value >= 0 /\ lab.mismatch = None) =>
        \A row \in ThresholdTable :
            (row.source = lab.project /\ CoversSomeScoreUpTo(row, lab.value))
                => TierRank(lab.result.role_name) >= TierRank(row.tier)

\* C25: when assign_tier_role(member, r) returns ok, the member holds r and no
\* other tier role, whatever verifications of the member came before or overlap
\* with the call.
C25_OkMeansExactlyTheTargetTier ==
    lab.op = "assign_tier_role" =>
        \A v \in Verifications :
            (lab.call[v].pc = "returned" /\ lab.call[v].ok)
                => lab.call[v].held = {lab.call[v].role_name}

\* C28: /xunlink answers "Unlinked." only when the user had a row in x_accounts,
\* and "You were not linked." when the user had none.
C28_UnlinkedOnlyWhenLinked ==
    (lab.op = "database" /\ lab.last.call = "delete_link") =>
        /\ lab.last.reply = "Unlinked." => lab.last.had_link
        /\ ~lab.last.had_link => lab.last.reply = "You were not linked."

\* C29: for every discord_id, a row of x_accounts has a row of user_metrics with
\* the same x_username and verified; a link deleted and not saved again leaves
\* x_username NULL and verified false in user_metrics; and log_result and
\* upsert_user_identity leave x_username and verified of a user_metrics row that
\* existed as they were.
C29_MetricsFollowTheLink ==
    lab.op = "database" =>
        /\ \A a \in lab.x_accounts :
               \E m \in lab.user_metrics :
                   /\ m.discord_id = a.discord_id
                   /\ m.x_username = a.x_username
                   /\ m.verified = a.verified
        /\ \A id \in lab.unlinked :
               /\ RowsOf(lab.x_accounts, id) = {}
               /\ RowsOf(lab.user_metrics, id) # {}
               /\ \A m \in RowsOf(lab.user_metrics, id) :
                      m.x_username = NULL /\ m.verified = "false"
        /\ lab.last.call \in {"log_result", "upsert_user_identity"} =>
               \A b \in lab.last.before :
                   \E m \in RowsOf(lab.user_metrics, lab.last.discord_id) :
                       m.x_username = b.x_username /\ m.verified = b.verified
        /\ \A id \in DiscordIds :
               /\ Cardinality(RowsOf(lab.x_accounts, id)) <= 1
               /\ Cardinality(RowsOf(lab.user_metrics, id)) <= 1

\* one user was linked, unlinked and then logged a result, an other is linked
C29_LoggedAfterUnlink ==
    /\ lab.op = "database"
    /\ "u1" \in lab.unlinked
    /\ lab.last.call = "log_result"
    /\ lab.last.discord_id = "u1"
    /\ \E b \in lab.last.before : b.discord_username # NULL
    /\ \E m \in RowsOf(lab.user_metrics, "u1") : m.role_assigned = "Signal Amplifier"
    /\ RowsOf(lab.x_accounts, "u2") # {}

\* a state of the oauth model
OauthState == lab.op = "oauth"

\* C27: a state issued by /x/start is accepted by /x/callback at most once: once
\* it was accepted it is pending no more and is never accepted again, so a
\* second callback with it, and any callback after its token exchange failed,
\* is refused and saves no link; and a link is saved only for the discord_id
\* that was stored with the state.
C27_StateAcceptedAtMostOnce ==
    /\ [](OauthState =>
            /\ \A s \in OAuthStates :
                   /\ lab.accepted[s] <= 1
                   /\ lab.accepted[s] = 1 => \A p \in lab.pending : p.state # s
                   /\ s \in lab.failed => \A l \in lab.links : l.state # s
            /\ \A c \in lab.inflight : \A p \in lab.pending : p.state # c.state
            /\ \A l \in lab.links :
                   [state |-> l.state, discord_id |-> l.discord_id] \in lab.issued
            /\ \A l \in lab.links, k \in lab.links :
                   l.state = k.state => l.discord_id = k.discord_id)
    /\ [][OauthState =>
            \A s \in OAuthStates :
                lab.accepted[s] = 1 => lab'.accepted[s] = 1]_vars

\* a state's link was saved, and a later callback with that state was refused
C27_SecondCallbackRefused ==
    /\ lab.op = "oauth"
    /\ \E l \in lab.links :
           /\ lab.last = Answered(l.state, "Invalid/expired state")
           /\ lab.accepted[l.state] = 1
    /\ lab.failed # {}

\* C30: the role_assigned that verify_cmd logs for an attempt names a tier role
\* that assign_tier_role gave the member in that attempt; when the assignment
\* failed, or no tier applies, the logged role_assigned is absent.
C30_LoggedRoleWasAssigned ==
    \A r \in Requests :
        (pc[r] = "done" /\ replied[r] = "result")
            => loc[r].role_assigned = granted[r]

=============================================================================
